---- MODULE Spec2Model ----
(***************************************************************************)
(* A model of the Sentinel authentication service: the token-bucket rate   *)
(* limiter (internal/middleware), the JWT token engine (internal/auth) and *)
(* the middleware pipeline wired by internal/server.                       *)
(*                                                                         *)
(* Time is an integer number of milliseconds.  The parts of the service    *)
(* are checked under specifications of their own (SpecLimiter, SpecToken,  *)
(* SpecPipeline, SpecRoutes, SpecStop, SpecProcess, SpecLocks and its fair *)
(* version, SpecAlone, SpecRegister) that share one set of variables.      *)
(***************************************************************************)
EXTENDS Integers, Sequences, FiniteSets, TLC

VARIABLES
    now,        \* the wall clock, in milliseconds
    ticks,      \* how many times the clock has advanced
    rate,       \* RateLimiter.rate (ms per token)
    capacity,   \* RateLimiter.capacity
    visitors,   \* RateLimiter.visitors: ip -> address of a visitor in heap
    heap,       \* the visitor objects: address -> [lastSeen, tokens], or Free
    gor,        \* the goroutines running Allow: [pc, ip, now, v]
    calls,      \* how many Allow calls have begun
    sweep,      \* the cleanup goroutine: [pc, cutoff, todo, toDelete]
    nextSweep,  \* when the cleanup ticker fires next
    admitted,   \* history: per ip, how many Allow calls returned true
    decided,    \* history: per ip, how many Allow calls returned
    disturbed,  \* history: per ip, a refill was applied or the key was evicted
    hist,       \* history: what the running sweep saw first, the keys evicted
    secret,     \* Auth.secret
    held,       \* the token a client holds: [tok, origin, userID, role, tokenType, ttl, at]
    parsed,     \* the outcome of the last ParseToken call on the held token
    rotated,    \* the outcome of the last refresh request with the held token
    wasExpired, \* history: the held token has been rejected as expired
    req,        \* the request being served
    chain,      \* the handlers of the route the request has still to enter
    trace,      \* the handlers the request has entered, in order
    resp,       \* the response written so far
    ctx,        \* the request context values
    logs,       \* the access-log records emitted for the request
    served,     \* how many requests have been accepted for service
    allowedOrigins, \* the allow-list the CORS interceptor was built with
    environ,    \* the environment of the process: [JWT_SECRET]
    main,       \* the main goroutine: [entry, pc, exit, deadline]
    cfg,        \* the configuration main has loaded: [JWTSecret]
    srv,        \* the http server: [built, listening, inflight, completed, aborted]
    bg,         \* the goroutines behind Server.Start: [starter, watcher, signal, serverErrors]
    limiters,   \* the RateLimiter objects: name -> [stopped, stopChan, cleanup]
    stopper,    \* the goroutines calling Stop: [pc, rl]
    stops,      \* history: [begun, returned, closes, panicked]
    store,      \* the user store: [kind, next, users, byName]
    regs,       \* the goroutines serving POST register: [pc, user, status]
    mu,         \* RateLimiter.mu, the lock of the map: [readers, writer]
    vmu,        \* visitor.mu: address -> the goroutine holding it
    ticker      \* whether a tick waits in the cleanup ticker's channel

limiterVars == <<rate, capacity, visitors, heap, gor, calls, sweep, nextSweep,
                 admitted, decided, disturbed, hist>>
tokenVars == <<secret, held, parsed, rotated, wasExpired>>
pipeVars == <<req, chain, trace, resp, ctx, logs, served, allowedOrigins>>
lifeVars == <<environ, main, cfg, srv, bg, limiters, stopper, stops>>
storeVars == <<store, regs>>
lockVars == <<mu, vmu, ticker>>
vars == <<now, ticks, limiterVars, tokenVars, pipeVars, lifeVars, storeVars,
          lockVars>>

----------------------------------------------------------------------------
(* Bounds of the model. *)

MaxTicks == 2
MaxCapacity == 2
MaxCalls == 3
MaxRequests == 11
NumGoroutines == 2
MaxStops == 3
MaxConns == 2

(* Units of time: the clock counts milliseconds. *)
Second == 1000
Minute == 60 * Second
Hour == 60 * Minute
Day == 24 * Hour

Min(a, b) == IF a <= b THEN a ELSE b

(* Go's integer division truncates toward zero. *)
TruncDiv(a, b) == IF a >= 0 THEN a \div b ELSE -((-a) \div b)

----------------------------------------------------------------------------
(* The rate limiter. *)

IPs == {"10.0.0.1"}
Goroutines == 1..NumGoroutines

(* The (rate, capacity) arguments NewRateLimiter is called with. *)
Rates == {1 * Second, 2 * Second}
Capacities == 0..MaxCapacity

CleanupInterval == 5 * Minute
Retention == 10 * Minute

NoVisitor == 0
Free == [lastSeen |-> -1, tokens |-> 0]

(* A visitor lives at an address for as long as the map or a goroutine refers
   to it; the garbage collector frees it afterwards. *)
Addresses == 1..(Cardinality(IPs) + NumGoroutines)

Referenced(vs, gs) ==
    {vs[ip] : ip \in DOMAIN vs} \cup {gs[g].v : g \in Goroutines}

Collect(h, vs, gs) ==
    [a \in Addresses |-> IF a \in Referenced(vs, gs) THEN h[a] ELSE Free]

FreshAddress ==
    CHOOSE a \in Addresses :
        /\ a \notin Referenced(visitors, gor)
        /\ \A b \in Addresses : b < a => b \in Referenced(visitors, gor)

IdleGor == [pc |-> "idle", ip |-> "", now |-> 0, v |-> NoVisitor]
IdleSweep == [pc |-> "idle", cutoff |-> 0, todo |-> {}, toDelete |-> {}]

(* What the history keeps:
     staleAtBegin  while a sweep runs, the keys whose bucket was older than
                   the cutoff when the sweep began;
     evicted       per key, "gone" once a sweep has deleted its bucket,
                   "anew" once a later call has made it again;
     regained      per key, a call found the bucket empty, refilled it and
                   was admitted, after calls for the key had been rejected. *)
NoHist == [staleAtBegin |-> {}, evicted |-> [ip \in IPs |-> "no"],
           regained |-> [ip \in IPs |-> FALSE]]

(* NewRateLimiter: an empty map, and the cleanup goroutine with its ticker. *)
NewRateLimiter(r, c) ==
    /\ rate = r
    /\ capacity = c
    /\ visitors = [ip \in {} |-> NoVisitor]
    /\ heap = [a \in Addresses |-> Free]
    /\ sweep = IdleSweep
    /\ nextSweep = now + CleanupInterval

(* The visitor a first Allow call for a key installs. *)
NewVisitorFull(t) == [lastSeen |-> t, tokens |-> capacity]

NewVisitor(t) == [lastSeen |-> t, tokens |-> capacity - 1]

(* The refill of Allow: tokens accrued since lastSeen, clamped to capacity. *)
RefillNever(v, t) == v

RefillStamping(v, t) ==
    LET tokensToAdd == TruncDiv(t - v.lastSeen, rate)
    IN [lastSeen |-> t,
        tokens |-> IF tokensToAdd > 0
                   THEN Min(v.tokens + tokensToAdd, capacity) ELSE v.tokens]

Refill(v, t) ==
    LET elapsed == t - v.lastSeen
        tokensToAdd == TruncDiv(elapsed, rate)
    IN IF tokensToAdd > 0
       THEN [lastSeen |-> t, tokens |-> Min(v.tokens + tokensToAdd, capacity)]
       ELSE v

(* The consumption of Allow: spend a token when one is left. *)
ConsumeLost(v) == v

Consume(v) == [v EXCEPT !.tokens = v.tokens - 1]

(* Allow, entry: now := time.Now(). *)
AllowStart(g, ip) ==
    /\ gor[g].pc = "idle"
    /\ \A h \in Goroutines : h < g => gor[h].pc # "idle"
    /\ calls < MaxCalls
    /\ calls' = calls + 1
    /\ gor' = [gor EXCEPT ![g] = [pc |-> "lookup", ip |-> ip, now |-> now,
                                  v |-> NoVisitor]]
    /\ UNCHANGED <<storeVars, lockVars, now, ticks,
                   rate, capacity, visitors, heap, sweep, nextSweep,
                   admitted, decided, disturbed, hist, tokenVars, pipeVars,
                   lifeVars>>

(* Allow, the lookup under the read lock. *)
AllowLookup(g) ==
    /\ gor[g].pc = "lookup"
    /\ gor' = [gor EXCEPT ![g] =
                 IF gor[g].ip \in DOMAIN visitors
                 THEN [@ EXCEPT !.pc = "bucket", !.v = visitors[gor[g].ip]]
                 ELSE [@ EXCEPT !.pc = "create"]]
    /\ UNCHANGED <<storeVars, lockVars, now, ticks,
                   rate, capacity, visitors, heap, calls, sweep,
                   nextSweep, admitted, decided, disturbed, hist, tokenVars,
                   pipeVars, lifeVars>>

(* Allow, the creation under the write lock, with its double check.  The
   write lock waits for the cleanup goroutine's read lock. *)
AllowCreate(g) ==
    LET ip == gor[g].ip IN
    /\ gor[g].pc = "create"
    /\ sweep.pc # "scan"
    /\ IF ip \in DOMAIN visitors
       THEN /\ gor' = [gor EXCEPT ![g] = [@ EXCEPT !.pc = "bucket",
                                                  !.v = visitors[ip]]]
            /\ UNCHANGED <<visitors, heap, admitted, decided, hist>>
       ELSE /\ heap' = [heap EXCEPT ![FreshAddress] = NewVisitor(gor[g].now)]
            /\ hist' = [hist EXCEPT
                          !.evicted[ip] = IF @ = "no" THEN "no" ELSE "anew"]
            /\ visitors' = [i \in DOMAIN visitors \cup {ip} |->
                              IF i = ip THEN FreshAddress ELSE visitors[i]]
            /\ admitted' = [admitted EXCEPT ![ip] = @ + 1]
            /\ decided' = [decided EXCEPT ![ip] = @ + 1]
            /\ gor' = [gor EXCEPT ![g] = IdleGor]
    /\ UNCHANGED <<storeVars, lockVars, now, ticks,
                   rate, capacity, calls, sweep, nextSweep,
                   disturbed, tokenVars, pipeVars, lifeVars>>

(* Allow, the refill and the consumption under the visitor's own lock. *)
AllowBucket(g) ==
    LET ip == gor[g].ip
        v == heap[gor[g].v]
        filled == Refill(v, gor[g].now)
    IN
    /\ gor[g].pc = "bucket"
    /\ gor' = [gor EXCEPT ![g] = IdleGor]
    /\ IF filled.tokens > 0
       THEN /\ heap' = Collect([heap EXCEPT ![gor[g].v] = Consume(filled)],
                               visitors, gor')
            /\ admitted' = [admitted EXCEPT ![ip] = @ + 1]
       ELSE /\ heap' = Collect([heap EXCEPT ![gor[g].v] = filled],
                               visitors, gor')
            /\ UNCHANGED admitted
    /\ decided' = [decided EXCEPT ![ip] = @ + 1]
    /\ disturbed' = [disturbed EXCEPT ![ip] = @ \/ filled # v]
    /\ hist' = [hist EXCEPT
                  !.regained[ip] = @ \/ (/\ v.tokens <= 0
                                         /\ filled.tokens > 0
                                         /\ decided[ip] > admitted[ip])]
    /\ UNCHANGED <<storeVars, lockVars, now, ticks,
                   rate, capacity, visitors, calls, sweep,
                   nextSweep, tokenVars, pipeVars, lifeVars>>

(* time.Ticker: a tick every CleanupInterval; the ticks the receiver was too
   slow for are dropped. *)
NextTickAfter(due, t) ==
    due + CleanupInterval * (((t - due) \div CleanupInterval) + 1)

(* cleanupVisitors: v.lastSeen.Before(cutoff) *)
StaleAlways(v, cutoff) == TRUE

Stale(v, cutoff) == v.lastSeen < cutoff

(* cleanup: the ticker fires and cleanupVisitors takes the read lock. *)
SweepBegin ==
    /\ sweep.pc = "idle"
    /\ now >= nextSweep
    /\ nextSweep' = NextTickAfter(nextSweep, now)
    /\ sweep' = [pc |-> "scan", cutoff |-> now - Retention,
                 todo |-> DOMAIN visitors, toDelete |-> {}]
    /\ hist' = [hist EXCEPT
                  !.staleAtBegin =
                      {ip \in DOMAIN visitors :
                          heap[visitors[ip]].lastSeen < now - Retention}]
    /\ UNCHANGED <<storeVars, lockVars, now, ticks,
                   rate, capacity, visitors, heap, gor, calls,
                   admitted, decided, disturbed, tokenVars, pipeVars,
                   lifeVars>>

(* cleanupVisitors: one iteration of the scan, under the visitor's lock. *)
SweepCheck(ip) ==
    /\ sweep.pc = "scan"
    /\ ip \in sweep.todo
    /\ sweep' = [sweep EXCEPT
                   !.todo = @ \ {ip},
                   !.toDelete = IF Stale(heap[visitors[ip]], sweep.cutoff)
                                THEN @ \cup {ip} ELSE @]
    /\ UNCHANGED <<storeVars, lockVars, now, ticks,
                   rate, capacity, visitors, heap, gor, calls,
                   nextSweep, admitted, decided, disturbed, hist, tokenVars,
                   pipeVars, lifeVars>>

(* cleanupVisitors: the scan is over and the read lock released. *)
SweepScanned ==
    /\ sweep.pc = "scan"
    /\ sweep.todo = {}
    /\ sweep' = IF sweep.toDelete = {} THEN IdleSweep
                ELSE [sweep EXCEPT !.pc = "delete"]
    /\ hist' = IF sweep.toDelete = {} THEN [hist EXCEPT !.staleAtBegin = {}]
               ELSE hist
    /\ UNCHANGED <<storeVars, lockVars, now, ticks,
                   rate, capacity, visitors, heap, gor, calls,
                   nextSweep, admitted, decided, disturbed, tokenVars, pipeVars,
                   lifeVars>>

(* cleanupVisitors: the deletions under the write lock. *)
SweepDelete ==
    /\ sweep.pc = "delete"
    /\ visitors' = [i \in DOMAIN visitors \ sweep.toDelete |-> visitors[i]]
    /\ disturbed' = [i \in IPs |-> disturbed[i] \/ i \in sweep.toDelete]
    /\ heap' = Collect(heap, visitors', gor)
    /\ sweep' = IdleSweep
    /\ hist' = [hist EXCEPT
                  !.staleAtBegin = {},
                  !.evicted = [i \in IPs |->
                      IF i \in sweep.toDelete THEN "gone" ELSE hist.evicted[i]]]
    /\ UNCHANGED <<storeVars, lockVars, now, ticks,
                   rate, capacity, gor, calls, nextSweep,
                   admitted, decided, tokenVars, pipeVars, lifeVars>>

(* The clock advances. *)
LimiterSteps == {1 * Second, CleanupInterval + Retention}

TickLimiter ==
    /\ ticks < MaxTicks
    /\ \E d \in LimiterSteps : now' = now + d
    /\ ticks' = ticks + 1
    /\ UNCHANGED <<limiterVars, tokenVars, pipeVars, lifeVars,
                   storeVars, lockVars>>

InitLimiter ==
    /\ \E r \in Rates, c \in Capacities : NewRateLimiter(r, c)
    /\ gor = [g \in Goroutines |-> IdleGor]
    /\ calls = 0
    /\ admitted = [ip \in IPs |-> 0]
    /\ decided = [ip \in IPs |-> 0]
    /\ disturbed = [ip \in IPs |-> FALSE]
    /\ hist = NoHist

NextLimiter ==
    \/ \E g \in Goroutines, ip \in IPs : AllowStart(g, ip)
    \/ \E g \in Goroutines : AllowLookup(g)
    \/ \E g \in Goroutines : AllowCreate(g)
    \/ \E g \in Goroutines : AllowBucket(g)
    \/ SweepBegin
    \/ \E ip \in IPs : SweepCheck(ip)
    \/ SweepScanned
    \/ SweepDelete
    \/ TickLimiter

----------------------------------------------------------------------------
(* The token engine: internal/auth on top of golang-jwt/jwt/v5. *)

(* A nil *jwt.NumericDate. *)
NoTime == 0 - 1

(* Go strings are byte strings; encoding/json writes a string that is not
   valid UTF-8 with each invalid byte replaced by U+FFFD. *)
BadUTF8 == "<ff>"
ReplacementChar == "<fffd>"

UserIDs == {"42", BadUTF8}
Roles == {"user", "admin"}
TokenTypes == {"access", "refresh"}
TTLs == {0 - Second, 0, Second \div 2, Second, 2 * Second}

JWTSecret == "test-secret-123"
Secrets == {"", JWTSecret}
Keys == {JWTSecret, "wrong-secret"}

HMACAlgs == {"HS256", "HS384", "HS512"}
RegisteredAlgs == HMACAlgs \cup {"none", "RS256"}
Algs == RegisteredAlgs \cup {"XX256"}

(* The policy lifetimes of the login and refresh handlers. *)
AccessTTL == 1 * Hour
RefreshTTL == 7 * Day

ErrNone == "nil"
ErrNoSecret == "jwt secret not configured"
ErrInvalidTTL == "ttl must be > 0"
ErrTokenEmpty == "token empty"
ErrMalformed == "token is malformed"
ErrAlgUnavailable == "signing method (alg) is unavailable"
ErrUnexpectedMethod == "unexpected signing method"
ErrInvalidKeyType == "key is of invalid type"
ErrSignatureInvalid == "signature is invalid"
ErrExpired == "token is expired"
ErrExpiredExplicit == "token expired"
ErrIssuedInFuture == "token issued too far in the future"
ErrWrongTokenType == "wrong token type"

Claims(userID, role, tokenType, iat, exp) ==
    [uid |-> userID, role |-> role, typ |-> tokenType, iat |-> iat, exp |-> exp]

NilClaims == Claims("", "", "", NoTime, NoTime)

(* jwt.NewNumericDate: the time truncated to jwt.TimePrecision, a second. *)
NewNumericDate(t) == t - (t % Second)

(* json.Marshal of a Go string. *)
JsonString(str) == IF str = BadUTF8 THEN ReplacementChar ELSE str

(* Token.SignedString: the header, the JSON payload and the signature that
   key makes over them.  A token is written as the record of what its three
   segments hold. *)
SignedString(alg, c, key) ==
    [form |-> "jwt", alg |-> alg, uid |-> JsonString(c.uid),
     role |-> JsonString(c.role), typ |-> JsonString(c.typ),
     iat |-> c.iat, exp |-> c.exp, key |-> key]

EmptyToken ==
    [form |-> "empty", alg |-> "", uid |-> "", role |-> "", typ |-> "",
     iat |-> NoTime, exp |-> NoTime, key |-> ""]

MalformedToken == [EmptyToken EXCEPT !.form = "malformed"]

(* json.Unmarshal of the payload into Claims. *)
DecodeClaims(tok) == Claims(tok.uid, tok.role, tok.typ, tok.iat, tok.exp)

(* Auth.GenerateTokenWithType, called at time t. *)
GenerateTokenAllAccess(userID, role, tokenType, ttl, t) ==
    IF secret = "" THEN [err |-> ErrNoSecret, tok |-> EmptyToken]
    ELSE IF ttl <= 0 THEN [err |-> ErrInvalidTTL, tok |-> EmptyToken]
    ELSE [err |-> ErrNone,
          tok |-> SignedString("HS256",
                      Claims(userID, role, "access", NewNumericDate(t),
                             NewNumericDate(t + ttl)),
                      secret)]

GenerateTokenNegativeTTLOnly(userID, role, tokenType, ttl, t) ==
    IF secret = "" THEN [err |-> ErrNoSecret, tok |-> EmptyToken]
    ELSE IF ttl < 0 THEN [err |-> ErrInvalidTTL, tok |-> EmptyToken]
    ELSE [err |-> ErrNone,
          tok |-> SignedString("HS256",
                      Claims(userID, role, tokenType, NewNumericDate(t),
                             NewNumericDate(t + ttl)),
                      secret)]

GenerateTokenWithType(userID, role, tokenType, ttl, t) ==
    IF secret = "" THEN [err |-> ErrNoSecret, tok |-> EmptyToken]
    ELSE IF ttl <= 0 THEN [err |-> ErrInvalidTTL, tok |-> EmptyToken]
    ELSE [err |-> ErrNone,
          tok |-> SignedString("HS256",
                      Claims(userID, role, tokenType, NewNumericDate(t),
                             NewNumericDate(t + ttl)),
                      secret)]

(* Auth.GenerateToken: an access token. *)
GenerateToken(userID, role, ttl, t) ==
    GenerateTokenWithType(userID, role, "access", ttl, t)

(* Parser.ParseUnverified: split and decode the segments, look the alg up. *)
ParseUnverified(tok) ==
    IF tok.form # "jwt" THEN ErrMalformed
    ELSE IF tok.alg \notin RegisteredAlgs THEN ErrAlgUnavailable
    ELSE ErrNone

(* The key function ParseToken passes to jwt.ParseWithClaims. *)
KeyfuncAnyMethod(alg) == ErrNone

Keyfunc(alg) ==
    IF alg \in HMACAlgs THEN ErrNone ELSE ErrUnexpectedMethod

(* SigningMethod.Verify with a []byte key. *)
MethodVerifyAnyKey(tok, key) ==
    IF tok.alg \in HMACAlgs THEN ErrNone ELSE ErrInvalidKeyType

MethodVerify(tok, key) ==
    IF tok.alg \in HMACAlgs
    THEN (IF tok.key = key THEN ErrNone ELSE ErrSignatureInvalid)
    ELSE ErrInvalidKeyType

(* Validator.Validate: exp is checked when present; iat is not checked. *)
ValidateClaimsInclusive(c, t) ==
    IF c.exp # NoTime /\ t > c.exp THEN ErrExpired ELSE ErrNone

ValidateClaims(c, t) ==
    IF c.exp # NoTime /\ ~(t < c.exp) THEN ErrExpired ELSE ErrNone

(* jwt.ParseWithClaims: the segments, the key function, the signature, the
   claims, in that order. *)
ParseWithClaims(tok, t) ==
    IF ParseUnverified(tok) # ErrNone THEN ParseUnverified(tok)
    ELSE IF Keyfunc(tok.alg) # ErrNone THEN Keyfunc(tok.alg)
    ELSE IF MethodVerify(tok, secret) # ErrNone THEN MethodVerify(tok, secret)
    ELSE ValidateClaims(DecodeClaims(tok), t)

(* ParseToken's own checks, after the library's. *)
MaxFutureSkew == 1 * Minute

ExplicitChecksNoSkew(c, t) ==
    IF c.exp # NoTime /\ t > c.exp THEN ErrExpiredExplicit
    ELSE IF c.iat # NoTime /\ c.iat > t THEN ErrIssuedInFuture
    ELSE ErrNone

ExplicitChecks(c, t) ==
    IF c.exp # NoTime /\ t > c.exp THEN ErrExpiredExplicit
    ELSE IF c.iat # NoTime /\ c.iat > t + MaxFutureSkew THEN ErrIssuedInFuture
    ELSE ErrNone

Rejected(e) == [err |-> e, claims |-> NilClaims]

(* Auth.ParseToken, called at time t. *)
ParseTokenSecretUnchecked(tokenStr, t) ==
    IF tokenStr.form = "empty" THEN Rejected(ErrTokenEmpty)
    ELSE IF ParseWithClaims(tokenStr, t) # ErrNone
    THEN Rejected(ParseWithClaims(tokenStr, t))
    ELSE IF ExplicitChecks(DecodeClaims(tokenStr), t) # ErrNone
    THEN Rejected(ExplicitChecks(DecodeClaims(tokenStr), t))
    ELSE [err |-> ErrNone, claims |-> DecodeClaims(tokenStr)]

ParseTokenRevoking(tokenStr, t) ==
    IF secret = "" THEN Rejected(ErrNoSecret)
    ELSE IF tokenStr.form = "empty" THEN Rejected(ErrTokenEmpty)
    ELSE IF ParseWithClaims(tokenStr, t) # ErrNone
    THEN Rejected(ParseWithClaims(tokenStr, t))
    ELSE IF ExplicitChecks(DecodeClaims(tokenStr), t) # ErrNone
    THEN Rejected(ExplicitChecks(DecodeClaims(tokenStr), t))
    ELSE IF rotated.done /\ rotated.status = 200 THEN Rejected("token revoked")
    ELSE [err |-> ErrNone, claims |-> DecodeClaims(tokenStr)]

ParseToken(tokenStr, t) ==
    IF secret = "" THEN Rejected(ErrNoSecret)
    ELSE IF tokenStr.form = "empty" THEN Rejected(ErrTokenEmpty)
    ELSE IF ParseWithClaims(tokenStr, t) # ErrNone
    THEN Rejected(ParseWithClaims(tokenStr, t))
    ELSE IF ExplicitChecks(DecodeClaims(tokenStr), t) # ErrNone
    THEN Rejected(ExplicitChecks(DecodeClaims(tokenStr), t))
    ELSE [err |-> ErrNone, claims |-> DecodeClaims(tokenStr)]

(* The refresh handler: validate the presented token, require a refresh
   token, issue a fresh access/refresh pair for the same subject and role. *)
RefreshToken(tokenStr, t) ==
    LET p == ParseToken(tokenStr, t)
        a == GenerateTokenWithType(p.claims.uid, p.claims.role, "access",
                                   AccessTTL, t)
        r == GenerateTokenWithType(p.claims.uid, p.claims.role, "refresh",
                                   RefreshTTL, t)
        refused(e) == [status |-> 401, err |-> e, access |-> EmptyToken,
                       refresh |-> EmptyToken, expiresIn |-> 0]
    IN IF p.err # ErrNone THEN refused(p.err)
       ELSE IF p.claims.typ # "refresh" THEN refused(ErrWrongTokenType)
       ELSE [status |-> 200, err |-> ErrNone, access |-> a.tok,
             refresh |-> r.tok, expiresIn |-> AccessTTL \div Second]

(* What a client can present without the engine: nothing, garbage, and
   tokens made with any algorithm, timestamps and key. *)
ForgedIats == {NoTime, MaxFutureSkew, MaxFutureSkew + Second}
ForgedExps == {NoTime, Second, 2 * Second}

ForgedTokens ==
    {EmptyToken, MalformedToken}
    \cup {SignedString(alg, Claims("42", "user", "access", NoTime, exp), key) :
            alg \in Algs, exp \in ForgedExps, key \in Keys}
    \cup {SignedString("HS256", Claims("42", "user", typ, iat, exp), JWTSecret) :
            typ \in TokenTypes, iat \in ForgedIats, exp \in ForgedExps}
    \cup {SignedString("HS256", Claims("42", "user", "access", NoTime, NoTime),
                       "")}

NoHeld ==
    [origin |-> "none", via |-> "", tok |-> EmptyToken, err |-> ErrNone,
     userID |-> "", role |-> "", tokenType |-> "", ttl |-> 0, at |-> 0]
NoParse == [done |-> FALSE, at |-> 0, err |-> ErrNone, claims |-> NilClaims]
NoRotate ==
    [done |-> FALSE, at |-> 0, status |-> 0, err |-> ErrNone,
     access |-> EmptyToken, refresh |-> EmptyToken, expiresIn |-> 0]

(* A caller asks the engine for a token. *)
Issue(userID, role, tokenType, ttl) ==
    LET r == GenerateTokenWithType(userID, role, tokenType, ttl, now) IN
    /\ held' = [origin |-> "issued", via |-> "GenerateTokenWithType",
                tok |-> r.tok, err |-> r.err,
                userID |-> userID, role |-> role, tokenType |-> tokenType,
                ttl |-> ttl, at |-> now]
    /\ parsed' = NoParse
    /\ rotated' = NoRotate
    /\ wasExpired' = FALSE
    /\ UNCHANGED <<storeVars, lockVars, now, ticks,
                   secret, limiterVars, pipeVars, lifeVars>>

(* A caller asks the engine for an access token through GenerateToken. *)
IssueAccess(userID, role, ttl) ==
    LET r == GenerateToken(userID, role, ttl, now) IN
    /\ held' = [origin |-> "issued", via |-> "GenerateToken",
                tok |-> r.tok, err |-> r.err,
                userID |-> userID, role |-> role, tokenType |-> "access",
                ttl |-> ttl, at |-> now]
    /\ parsed' = NoParse
    /\ rotated' = NoRotate
    /\ wasExpired' = FALSE
    /\ UNCHANGED <<storeVars, lockVars, now, ticks,
                   secret, limiterVars, pipeVars, lifeVars>>

(* A client makes a token of its own. *)
Forge(tok) ==
    /\ held' = [NoHeld EXCEPT !.origin = "forged", !.tok = tok, !.at = now]
    /\ parsed' = NoParse
    /\ rotated' = NoRotate
    /\ wasExpired' = FALSE
    /\ UNCHANGED <<storeVars, lockVars, now, ticks,
                   secret, limiterVars, pipeVars, lifeVars>>

(* The held token is validated. *)
Parse ==
    LET p == ParseToken(held.tok, now) IN
    /\ held.origin # "none"
    /\ parsed' = [done |-> TRUE, at |-> now, err |-> p.err, claims |-> p.claims]
    /\ wasExpired' = (wasExpired \/ p.err \in {ErrExpired, ErrExpiredExplicit})
    /\ UNCHANGED <<storeVars, lockVars, now, ticks,
                   secret, held, rotated, limiterVars, pipeVars, lifeVars>>

(* The held token is presented to the refresh endpoint. *)
Rotate ==
    LET r == RefreshToken(held.tok, now) IN
    /\ held.origin # "none"
    /\ rotated' = [done |-> TRUE, at |-> now, status |-> r.status,
                   err |-> r.err, access |-> r.access, refresh |-> r.refresh,
                   expiresIn |-> r.expiresIn]
    /\ UNCHANGED <<storeVars, lockVars, now, ticks,
                   secret, held, parsed, wasExpired, limiterVars,
                   pipeVars, lifeVars>>

TokenSteps == {Second \div 2, Second}

TickToken ==
    /\ ticks < MaxTicks
    /\ \E d \in TokenSteps : now' = now + d
    /\ ticks' = ticks + 1
    /\ UNCHANGED <<limiterVars, tokenVars, pipeVars, lifeVars,
                   storeVars, lockVars>>

InitToken ==
    /\ secret \in Secrets
    /\ held = NoHeld
    /\ parsed = NoParse
    /\ rotated = NoRotate
    /\ wasExpired = FALSE

NextToken ==
    \/ \E u \in UserIDs, r \in Roles, ty \in TokenTypes, ttl \in TTLs :
          Issue(u, r, ty, ttl)
    \/ \E u \in UserIDs, r \in Roles, ttl \in TTLs : IssueAccess(u, r, ttl)
    \/ \E tok \in ForgedTokens : Forge(tok)
    \/ Parse
    \/ Rotate
    \/ TickToken

----------------------------------------------------------------------------
(* The middleware pipeline: internal/server wires the routes, and
   internal/middleware holds the interceptors. *)

ProfileRoute == "/api/auth/profile"
LoginRoute == "/api/auth/login"
HealthRoute == "/health"
Routes == {HealthRoute, LoginRoute, ProfileRoute}

(* generalRateLimit := middleware.NewRateLimiter(time.Second, 10) *)
GeneralCapacity == 10

(* authRateLimit := middleware.NewRateLimiter(time.Second*2, 5) *)
AuthCapacity == 5

(* The rate limiter New hands to the route's WithRateLimit. *)
RouteLimiter(route) ==
    IF route = LoginRoute THEN [rate |-> 2 * Second, capacity |-> AuthCapacity]
    ELSE [rate |-> Second, capacity |-> GeneralCapacity]

(* The middlewares New hands to applyMiddleware for a route, in the order of
   the argument list. *)
RouteMiddlewares(route) ==
    IF route = ProfileRoute
    THEN <<"WithRequestID", "WithSecurityHeaders", "WithRateLimit", "WithCORS",
           "WithAuth", "WithLogging">>
    ELSE IF route = LoginRoute
    THEN <<"WithRequestID", "WithSecurityHeaders", "WithRateLimit", "WithCORS",
           "WithLogging">>
    ELSE <<"WithRequestID", "WithSecurityHeaders", "WithRateLimit",
           "WithLogging">>

RouteHandler(route) ==
    IF route = ProfileRoute THEN "Me"
    ELSE IF route = LoginRoute THEN "Login"
    ELSE "Health"

(* applyMiddleware: handler = middlewares[i](handler) for i from the last
   index down to the first.  A composed handler is written as the sequence
   of its layers, the outermost first. *)
RECURSIVE applyMiddlewareForward(_, _)
applyMiddlewareForward(handler, middlewares) ==
    IF middlewares = <<>> THEN handler
    ELSE applyMiddlewareForward(<<Head(middlewares)>> \o handler,
                                Tail(middlewares))

RECURSIVE applyMiddleware(_, _)
applyMiddleware(handler, middlewares) ==
    IF middlewares = <<>> THEN handler
    ELSE applyMiddleware(<<middlewares[Len(middlewares)]>> \o handler,
                         SubSeq(middlewares, 1, Len(middlewares) - 1))

(* mux.Handle(route, applyMiddleware(handler, ...)) *)
Mux(route) == applyMiddleware(<<RouteHandler(route)>>, RouteMiddlewares(route))

(* The tokens the clients of the pipeline present. *)
AccessTok == GenerateTokenWithType("1", "user", "access", AccessTTL, 0).tok
RefreshTok == GenerateTokenWithType("1", "user", "refresh", RefreshTTL, 0).tok
ExpiredTok == SignedString("HS256", Claims("1", "user", "access", 0, 0), secret)
WrongKeyTok ==
    SignedString("HS256", Claims("1", "user", "access", 0, Hour), "wrong-secret")

(* An Authorization header is written as its scheme part and the token that
   follows it; the absent header is the empty string. *)
Authorization(scheme, tok) == [scheme |-> scheme, tok |-> tok]

AuthHeaders ==
    {Authorization("", EmptyToken), Authorization("Bearer ", EmptyToken),
     Authorization("Basic ", AccessTok), Authorization("bearer ", AccessTok)}
    \cup {Authorization("Bearer ", tok) :
            tok \in {AccessTok, RefreshTok, ExpiredTok, WrongKeyTok,
                     MalformedToken}}

SchemeLen(scheme) ==
    CASE scheme = "" -> 0
      [] scheme = "Basic " -> 6
      [] OTHER -> 7

WireLen(tok) ==
    CASE tok.form = "empty" -> 0
      [] tok.form = "malformed" -> 9
      [] OTHER -> 100

HeaderLen(h) == SchemeLen(h.scheme) + WireLen(h.tok)

BearerPrefixLen == 7

(* How a client's address reaches the server: the X-Forwarded-For and
   X-Real-IP headers and the RemoteAddr of the connection.  One client,
   connecting directly or through a proxy. *)
ClientAddr(forwarded, realIP, remoteAddr) ==
    [forwarded |-> forwarded, realIP |-> realIP, remoteAddr |-> remoteAddr]

Direct == ClientAddr("", "", "10.0.0.1:51234")
Proxied == ClientAddr("10.0.0.1", "", "192.0.2.1:443")
ProxiedChain == ClientAddr("10.0.0.1, 192.0.2.1", "10.0.0.1", "192.0.2.1:443")
ClientAddrs == {Direct, Proxied, ProxiedChain}

(* A request that came through two proxies, the last of which sets no
   X-Real-IP. *)
ForwardedList == ClientAddr("10.0.0.1, 192.0.2.1", "", "192.0.2.1:443")
RouteAddrs == {Direct, Proxied, ForwardedList}

(* net.ParseIP: the address in its canonical text, or nil (the empty string
   here) for text that is not one IP address. *)
ParseIP(str) == IF str \in {"10.0.0.1", "192.0.2.1"} THEN str ELSE ""

(* net.SplitHostPort *)
SplitHostPort(hostport) ==
    CASE hostport = "10.0.0.1:51234" -> [host |-> "10.0.0.1", err |-> FALSE]
      [] hostport = "192.0.2.1:443" -> [host |-> "192.0.2.1", err |-> FALSE]
      [] OTHER -> [host |-> "", err |-> TRUE]

(* getClientIP *)
getClientIP(r) ==
    IF r.addr.forwarded # "" /\ ParseIP(r.addr.forwarded) # ""
    THEN ParseIP(r.addr.forwarded)
    ELSE IF r.addr.realIP # "" /\ ParseIP(r.addr.realIP) # ""
    THEN ParseIP(r.addr.realIP)
    ELSE IF SplitHostPort(r.addr.remoteAddr).err THEN r.addr.remoteAddr
    ELSE SplitHostPort(r.addr.remoteAddr).host

(* The tokens a client presents that ParseToken rejects for reasons other
   than expiry and signature. *)
FutureTok ==
    SignedString("HS256",
                 Claims("1", "user", "access", Hour, 2 * Hour), secret)
NoneAlgTok ==
    SignedString("none", Claims("1", "user", "access", 0, Hour), "")
ForeignAlgTok ==
    SignedString("RS256", Claims("1", "user", "access", 0, Hour), secret)

RejectedAuthHeaders ==
    {Authorization("Bearer ", tok) :
        tok \in {ExpiredTok, WrongKeyTok, MalformedToken, FutureTok,
                 NoneAlgTok, ForeignAlgTok}}

(* The Origin header of a request; "" when the client sends none. *)
AppOrigin == "https://app.example"
Origins == {"", AppOrigin, "https://evil.example"}

(* The allow-lists a CORS interceptor is built with; server.New passes the
   wildcard. *)
Wildcard == <<"*">>
AllowLists ==
    {Wildcard, <<AppOrigin>>, <<"http://localhost:3000", AppOrigin>>, <<>>}

(* The body of a login request: JSON with a username and a password, or
   something json.Decode refuses. *)
LoginBody(form, username, password) ==
    [form |-> form, username |-> username, password |-> password]

NoLogin == LoginBody("", "", "")
Logins ==
    {LoginBody("json", "alice", "SecurePass123!"),
     LoginBody("json", " alice ", "SecurePass123!"),
     LoginBody("json", "alice", "wrong"),
     LoginBody("json", "bob", "SecurePass123!"),
     LoginBody("json", " ", "SecurePass123!"),
     LoginBody("garbage", "", "")}

NoBody == [error |-> "", message |-> ""]

(* The JSON object of a success body, by its keys; none before a handler
   encodes one. *)
NoIssued == [key \in {} |-> ""]

NoReq ==
    [route |-> "", method |-> "", auth |-> Authorization("", EmptyToken),
     requestID |-> "", addr |-> ClientAddr("", "", ""), origin |-> "",
     login |-> NoLogin]
NoResp == [status |-> 0, by |-> "", requestID |-> "", secure |-> FALSE,
           cors |-> FALSE, allowOrigin |-> [set |-> FALSE, value |-> ""],
           retryAfter |-> "", contentType |-> "",
           body |-> NoBody, issued |-> NoIssued]
NoCtx == [requestID |-> "", hasUser |-> FALSE, user |-> NilClaims]

IsAfterStep(h) == h = "LogRecord"

(* A handler that returns without calling next: what is left to run is what
   the handlers around it do after next returns. *)
ShortCircuitNever(rest) == rest

ShortCircuit(rest) == SelectSeq(rest, IsAfterStep)

Entered(h) == \E i \in DOMAIN trace : trace[i].h = h
Enter(h) == Append(trace, [h |-> h, at |-> now, key |-> "", ok |-> FALSE])

(* The rate-limit interceptor is entered and makes its call Allow(key),
   which answers ok. *)
EnterAllow(key, ok) ==
    Append(trace, [h |-> "WithRateLimit", at |-> now, key |-> key, ok |-> ok])

At(h) == chain # <<>> /\ Head(chain) = h

(* The server accepts a request and routes it. *)
NewRequest(route, method, auth, rid, addr) ==
    /\ chain = <<>>
    /\ served < MaxRequests
    /\ served' = served + 1
    /\ req' = [NoReq EXCEPT !.route = route, !.method = method, !.auth = auth,
                            !.requestID = rid, !.addr = addr,
                            !.origin = IF addr = Direct THEN "" ELSE AppOrigin]
    /\ chain' = Mux(route)
    /\ trace' = <<>>
    /\ resp' = NoResp
    /\ ctx' = NoCtx
    /\ logs' = <<>>
    /\ UNCHANGED <<storeVars, lockVars, now, ticks,
                   limiterVars, tokenVars, lifeVars, allowedOrigins>>

(* generateRequestID: 16 random bytes in hex, or "unknown" when the random
   source fails. *)
GeneratedIDs == {"9f86d081884c7d659a2feaa0c55ad015", "unknown"}

generateRequestID(randOK) ==
    IF randOK THEN "9f86d081884c7d659a2feaa0c55ad015" ELSE "unknown"

(* WithRequestID: the id of the request, the client's when it sent one. *)
RequestIDFresh(r, randOK) == generateRequestID(randOK)

RequestIDOf(r, randOK) ==
    IF r.requestID = "" THEN generateRequestID(randOK) ELSE r.requestID

(* WithRequestID *)
WithRequestID(randOK) ==
    LET requestID == RequestIDOf(req, randOK) IN
    /\ At("WithRequestID")
    /\ req.requestID # "" => randOK
    /\ trace' = Enter("WithRequestID")
    /\ resp' = [resp EXCEPT !.requestID = requestID]
    /\ ctx' = [ctx EXCEPT !.requestID = requestID]
    /\ chain' = Tail(chain)
    /\ UNCHANGED <<storeVars, lockVars, now, ticks,
                   limiterVars, tokenVars, req, logs, served, lifeVars,
                   allowedOrigins>>

(* WithSecurityHeaders *)
WithSecurityHeaders ==
    /\ At("WithSecurityHeaders")
    /\ trace' = Enter("WithSecurityHeaders")
    /\ resp' = [resp EXCEPT !.secure = TRUE]
    /\ chain' = Tail(chain)
    /\ UNCHANGED <<storeVars, lockVars, now, ticks,
                   limiterVars, tokenVars, req, ctx, logs, served, lifeVars,
                   allowedOrigins>>

(* RateLimiter.Allow run by one request at a time: the same lookup, creation,
   refill and consumption, with nothing in between. *)
AllowOutcome(ip, t) ==
    IF ip \notin DOMAIN visitors
    THEN [ok |-> TRUE,
          visitors |-> [i \in DOMAIN visitors \cup {ip} |->
                          IF i = ip THEN FreshAddress ELSE visitors[i]],
          heap |-> [heap EXCEPT ![FreshAddress] = NewVisitor(t)]]
    ELSE LET filled == Refill(heap[visitors[ip]], t) IN
         IF filled.tokens > 0
         THEN [ok |-> TRUE, visitors |-> visitors,
               heap |-> [heap EXCEPT ![visitors[ip]] = Consume(filled)]]
         ELSE [ok |-> FALSE, visitors |-> visitors,
               heap |-> [heap EXCEPT ![visitors[ip]] = filled]]

(* writeRateLimitError *)
RateLimitError(w) ==
    [w EXCEPT !.contentType = "application/json",
              !.retryAfter = "60",
              !.status = 429,
              !.by = "WithRateLimit",
              !.body = [error |-> "Too Many Requests",
                        message |-> "Rate limit exceeded. Please try again later."]]

(* WithRateLimit *)
WithRateLimit ==
    LET ip == getClientIP(req)
        a == AllowOutcome(ip, now)
    IN
    /\ At("WithRateLimit")
    /\ trace' = EnterAllow(ip, a.ok)
    /\ visitors' = a.visitors
    /\ heap' = a.heap
    /\ IF a.ok
       THEN /\ chain' = Tail(chain)
            /\ UNCHANGED resp
       ELSE /\ chain' = ShortCircuit(Tail(chain))
            /\ resp' = RateLimitError(resp)
    /\ UNCHANGED <<storeVars, lockVars, now, ticks,
                   rate, capacity, gor, calls, sweep, nextSweep,
                   admitted, decided, disturbed, hist, tokenVars, req, ctx,
                   logs, served, lifeVars, allowedOrigins>>

(* WithCORS: the origin is allowed when an entry of the list is the
   wildcard or the origin itself. *)
AllowedAlways(list, origin) == TRUE

Allowed(list, origin) ==
    \E i \in DOMAIN list : list[i] = "*" \/ list[i] = origin

(* WithCORS: r.Method == "OPTIONS" *)
IsPreflightNever(r) == FALSE

IsPreflight(r) == r.method = "OPTIONS"

(* WithCORS: the headers it sets on the response. *)
CORSHeaders(w, r) ==
    [w EXCEPT !.cors = TRUE,
              !.allowOrigin = IF Allowed(allowedOrigins, r.origin)
                              THEN [set |-> TRUE, value |-> r.origin]
                              ELSE @]

(* WithCORS(allowedOrigins) *)
WithCORS ==
    /\ At("WithCORS")
    /\ trace' = Enter("WithCORS")
    /\ IF IsPreflight(req)
       THEN /\ chain' = ShortCircuit(Tail(chain))
            /\ resp' = [CORSHeaders(resp, req) EXCEPT !.status = 200,
                                                      !.by = "WithCORS"]
       ELSE /\ chain' = Tail(chain)
            /\ resp' = CORSHeaders(resp, req)
    /\ UNCHANGED <<storeVars, lockVars, now, ticks,
                   limiterVars, tokenVars, req, ctx, logs, served, lifeVars,
                   allowedOrigins>>

(* The decision of WithAuth on an Authorization header at time t. *)
AuthDecisionOpen(h, t) ==
    [status |-> 0, message |-> "", hasUser |-> TRUE,
     user |-> DecodeClaims(h.tok)]

AuthDecisionTelling(h, t) ==
    LET denied(msg) == [status |-> 401, message |-> msg, hasUser |-> FALSE,
                        user |-> NilClaims]
        p == ParseToken(h.tok, t)
    IN IF HeaderLen(h) = 0 THEN denied("Authorization header required")
       ELSE IF HeaderLen(h) <= BearerPrefixLen \/ h.scheme # "Bearer "
       THEN denied("Invalid authorization header format")
       ELSE IF p.err # ErrNone THEN denied(p.err)
       ELSE [status |-> 0, message |-> "", hasUser |-> TRUE,
             user |-> p.claims]

AuthDecision(h, t) ==
    LET denied(msg) == [status |-> 401, message |-> msg, hasUser |-> FALSE,
                        user |-> NilClaims]
        p == ParseToken(h.tok, t)
    IN IF HeaderLen(h) = 0 THEN denied("Authorization header required")
       ELSE IF HeaderLen(h) <= BearerPrefixLen \/ h.scheme # "Bearer "
       THEN denied("Invalid authorization header format")
       ELSE IF p.err # ErrNone THEN denied("Invalid or expired token")
       ELSE [status |-> 0, message |-> "", hasUser |-> TRUE,
             user |-> p.claims]

(* http.StatusText *)
StatusText(code) ==
    CASE code = 400 -> "Bad Request"
      [] code = 401 -> "Unauthorized"
      [] code = 500 -> "Internal Server Error"
      [] OTHER -> ""

(* writeAuthError, and writeErrorResponse of the handlers. *)
writeAuthError(w, message, statusCode) ==
    [w EXCEPT !.contentType = "application/json",
              !.status = statusCode,
              !.body = [error |-> StatusText(statusCode), message |-> message]]

(* WithAuth *)
WithAuth ==
    LET d == AuthDecision(req.auth, now) IN
    /\ At("WithAuth")
    /\ trace' = Enter("WithAuth")
    /\ IF d.status # 0
       THEN /\ chain' = ShortCircuit(Tail(chain))
            /\ resp' = [writeAuthError(resp, d.message, d.status)
                           EXCEPT !.by = "WithAuth"]
            /\ UNCHANGED ctx
       ELSE /\ chain' = Tail(chain)
            /\ ctx' = [ctx EXCEPT !.hasUser = TRUE, !.user = d.user]
            /\ UNCHANGED resp
    /\ UNCHANGED <<storeVars, lockVars, now, ticks,
                   limiterVars, tokenVars, req, logs, served, lifeVars,
                   allowedOrigins>>

(* WithLogging, before next.ServeHTTP: the response writer is wrapped. *)
WithLogging ==
    /\ At("WithLogging")
    /\ trace' = Enter("WithLogging")
    /\ chain' = Append(Tail(chain), "LogRecord")
    /\ UNCHANGED <<storeVars, lockVars, now, ticks,
                   limiterVars, tokenVars, req, resp, ctx, logs,
                   served, lifeVars, allowedOrigins>>

(* WithLogging, after next.ServeHTTP returned: one record, its level by the
   status. *)
LogRecord ==
    /\ At("LogRecord")
    /\ logs' = Append(logs, [status |-> resp.status,
                             level |-> IF resp.status >= 500 THEN "error"
                                       ELSE IF resp.status >= 400 THEN "warn"
                                       ELSE "info",
                             requestID |-> ctx.requestID])
    /\ chain' = Tail(chain)
    /\ UNCHANGED <<storeVars, lockVars, now, ticks,
                   limiterVars, tokenVars, req, trace, resp, ctx,
                   served, lifeVars, allowedOrigins>>

(* The users in the store, by the decimal id their tokens carry. *)
StoredUserIDs == {"1"}
NumericIDs == {"1", "42"}

(* Handlers.Me; storeOK: the store answered GetUserByID without an error. *)
Me(storeOK) ==
    /\ At("Me")
    /\ trace' = Enter("Me")
    /\ resp' = [resp EXCEPT
                  !.by = "Me",
                  !.status = IF ~ctx.hasUser THEN 401
                             ELSE IF ctx.user.uid \notin NumericIDs THEN 400
                             ELSE IF ~storeOK THEN 500
                             ELSE IF ctx.user.uid \notin StoredUserIDs THEN 404
                             ELSE 200]
    /\ chain' = Tail(chain)
    /\ UNCHANGED <<storeVars, lockVars, now, ticks,
                   limiterVars, tokenVars, req, ctx, logs, served, lifeVars,
                   allowedOrigins>>

(* Handlers.Health; storeOK: the store answered Ping without an error. *)
Health(storeOK) ==
    /\ At("Health")
    /\ trace' = Enter("Health")
    /\ resp' = [resp EXCEPT !.by = "Health",
                            !.status = IF storeOK THEN 200 ELSE 503]
    /\ chain' = Tail(chain)
    /\ UNCHANGED <<storeVars, lockVars, now, ticks,
                   limiterVars, tokenVars, req, ctx, logs, served, lifeVars,
                   allowedOrigins>>

(* The users in the store, by name: the id, the role, and the password the
   stored hash was made from. *)
StoredUsers ==
    [name \in {"alice"} |->
        [id |-> "1", role |-> "user", password |-> "SecurePass123!"]]

(* validation.SanitizeInput: control characters removed, white space
   trimmed. *)
SanitizeInput(input) ==
    CASE input = " alice " -> "alice"
      [] input = " " -> ""
      [] OTHER -> input

(* auth.CheckPassword: bcrypt's comparison of the hash and the password. *)
CheckPassword(password, pw) == password # "" /\ pw # "" /\ password = pw

(* The token lifetime Login asks for. *)
LoginTTL == 24 * Hour

(* Handlers.Login, the check of the credentials against the stored user:
   the message of the refusal, none when they are good. *)
CredentialsRefusalTelling(known, passwordOK) ==
    IF ~known THEN "Unknown user"
    ELSE IF ~passwordOK THEN "Wrong password"
    ELSE ""

CredentialsRefusal(known, passwordOK) ==
    IF ~known \/ ~passwordOK THEN "Invalid credentials" ELSE ""

(* Handlers.Login: what it writes to w for the login body l at time t;
   storeOK: the store answered GetUserByUsername without an error. *)
LoginResponse(w, l, storeOK, t) ==
    LET username == SanitizeInput(l.username)
        password == SanitizeInput(l.password)
        known == username \in DOMAIN StoredUsers
        refusal == CredentialsRefusal(
                       known,
                       known /\ CheckPassword(StoredUsers[username].password,
                                              password))
        token == GenerateToken(StoredUsers[username].id,
                               StoredUsers[username].role, LoginTTL, t)
    IN IF l.form # "json"
       THEN writeAuthError(w, "Invalid JSON payload", 400)
       ELSE IF username = "" \/ password = ""
       THEN writeAuthError(w, "Username and password are required", 400)
       ELSE IF ~storeOK
       THEN writeAuthError(w, "Internal server error", 500)
       ELSE IF refusal # ""
       THEN writeAuthError(w, refusal, 401)
       ELSE IF token.err # ErrNone
       THEN writeAuthError(w, "Failed to create authentication token", 500)
       ELSE [w EXCEPT !.contentType = "application/json",
                      !.status = 200,
                      !.issued = [token |-> token.tok, user |-> username]]

(* Handlers.Login *)
Login(storeOK) ==
    /\ At("Login")
    /\ trace' = Enter("Login")
    /\ resp' = LoginResponse([resp EXCEPT !.by = "Login"], req.login, storeOK,
                             now)
    /\ chain' = Tail(chain)
    /\ UNCHANGED <<storeVars, lockVars, now, ticks,
                   limiterVars, tokenVars, req, ctx, logs, served,
                   lifeVars, allowedOrigins>>

(* A request of the routes under study: any origin, any login body. *)
NewRouteRequest(route, method, auth, origin, login, addr) ==
    /\ chain = <<>>
    /\ served < MaxConns
    /\ RouteLimiter(route) = [rate |-> rate, capacity |-> capacity]
    /\ served' = served + 1
    /\ req' = [NoReq EXCEPT !.route = route, !.method = method, !.auth = auth,
                            !.addr = addr, !.origin = origin,
                            !.login = login]
    /\ chain' = Mux(route)
    /\ trace' = <<>>
    /\ resp' = NoResp
    /\ ctx' = NoCtx
    /\ logs' = <<>>
    /\ UNCHANGED <<storeVars, lockVars, now, ticks,
                   limiterVars, tokenVars, lifeVars, allowedOrigins>>

PipelineSteps == {Second}

TickPipeline ==
    /\ ticks < MaxTicks
    /\ \E d \in PipelineSteps : now' = now + d
    /\ ticks' = ticks + 1
    /\ UNCHANGED <<limiterVars, tokenVars, pipeVars, lifeVars,
                   storeVars, lockVars>>

NoRequest ==
    /\ req = NoReq
    /\ chain = <<>>
    /\ trace = <<>>
    /\ resp = NoResp
    /\ ctx = NoCtx
    /\ logs = <<>>
    /\ served = 0

(* The routes as server.New wires them. *)
InitPipeline == NoRequest /\ allowedOrigins = Wildcard

(* One of the CORS routes, its interceptor built with any allow-list. *)
InitRoutes ==
    /\ NoRequest
    /\ allowedOrigins \in AllowLists
    /\ \E route \in {LoginRoute, ProfileRoute} :
          NewRateLimiter(RouteLimiter(route).rate, RouteLimiter(route).capacity)
    /\ gor = [g \in Goroutines |-> IdleGor]
    /\ calls = 0
    /\ admitted = [ip \in IPs |-> 0]
    /\ decided = [ip \in IPs |-> 0]
    /\ disturbed = [ip \in IPs |-> FALSE]
    /\ hist = NoHist

NextRoutes ==
    \/ \E method \in {"GET", "OPTIONS"}, origin \in Origins,
          auth \in RejectedAuthHeaders
                   \cup {Authorization("", EmptyToken),
                         Authorization("Bearer ", AccessTok)},
          addr \in RouteAddrs :
            NewRouteRequest(ProfileRoute, method, auth, origin, NoLogin, addr)
    \/ \E method \in {"POST", "OPTIONS"}, origin \in Origins, login \in Logins,
          addr \in RouteAddrs :
            NewRouteRequest(LoginRoute, method, Authorization("", EmptyToken),
                            origin, login, addr)
    \/ \E randOK \in BOOLEAN : WithRequestID(randOK)
    \/ WithSecurityHeaders
    \/ WithRateLimit
    \/ WithCORS
    \/ WithAuth
    \/ WithLogging
    \/ LogRecord
    \/ \E storeOK \in BOOLEAN : Me(storeOK)
    \/ \E storeOK \in BOOLEAN : Login(storeOK)

NextPipeline ==
    \/ \E method \in {"GET", "OPTIONS"}, auth \in AuthHeaders,
          addr \in ClientAddrs :
            NewRequest(ProfileRoute, method, auth,
                       IF addr = Direct THEN "" ELSE "client-id", addr)
    \/ \E addr \in ClientAddrs :
            NewRequest(HealthRoute, "GET", Authorization("", EmptyToken),
                       IF addr = Direct THEN "" ELSE "client-id", addr)
    \/ \E randOK \in BOOLEAN : WithRequestID(randOK)
    \/ WithSecurityHeaders
    \/ WithRateLimit
    \/ WithCORS
    \/ WithAuth
    \/ WithLogging
    \/ LogRecord
    \/ \E storeOK \in BOOLEAN : Me(storeOK)
    \/ \E storeOK \in BOOLEAN : Health(storeOK)
    \/ TickPipeline

----------------------------------------------------------------------------
(* Stopping a rate limiter. *)

LimiterNames == {"authRateLimit", "generalRateLimit"}

NoLimiter == [stopped |-> 0, stopChan |-> "nil", cleanup |-> "none",
              nextTick |-> 0]

(* NewRateLimiter: the stop channel, the flag, and the cleanup goroutine
   with its ticker. *)
StartedLimiter(t) == [stopped |-> 0, stopChan |-> "open", cleanup |-> "running",
                      nextTick |-> t + CleanupInterval]

IdleStopper == [pc |-> "idle", rl |-> ""]

NoStops == [begun |-> 0,
            returned |-> [l \in LimiterNames |-> 0],
            closes |-> [l \in LimiterNames |-> 0],
            panicked |-> FALSE]

(* atomic.CompareAndSwapInt32 *)
CompareAndSwapAlways(cur, old, new) == [swapped |-> TRUE, value |-> new]

CompareAndSwap(cur, old, new) ==
    [swapped |-> cur = old, value |-> IF cur = old THEN new ELSE cur]

(* Stop is called on limiter l by goroutine g. *)
StopBegin(g, l) ==
    /\ ~stops.panicked
    /\ stopper[g].pc = "idle"
    /\ \A h \in Goroutines : h < g => stopper[h].pc # "idle"
    /\ limiters[l].cleanup # "none"
    /\ stops.begun < MaxStops
    /\ stopper' = [stopper EXCEPT ![g] = [pc |-> "swap", rl |-> l]]
    /\ stops' = [stops EXCEPT !.begun = @ + 1]
    /\ UNCHANGED <<storeVars, lockVars, now, ticks,
                   limiterVars, tokenVars, pipeVars, environ, main,
                   cfg, srv, bg, limiters>>

(* Stop: the compare-and-swap on the flag; the loser returns. *)
StopSwap(g) ==
    LET l == stopper[g].rl
        r == CompareAndSwap(limiters[l].stopped, 0, 1)
    IN
    /\ ~stops.panicked
    /\ stopper[g].pc = "swap"
    /\ limiters' = [limiters EXCEPT ![l].stopped = r.value]
    /\ IF r.swapped
       THEN /\ stopper' = [stopper EXCEPT ![g].pc = "close"]
            /\ UNCHANGED stops
       ELSE /\ stopper' = [stopper EXCEPT ![g] = IdleStopper]
            /\ stops' = [stops EXCEPT !.returned[l] = @ + 1]
    /\ UNCHANGED <<storeVars, lockVars, now, ticks,
                   limiterVars, tokenVars, pipeVars, environ, main,
                   cfg, srv, bg>>

(* Stop: close(rl.stopChan); closing a closed channel panics. *)
StopClose(g) ==
    LET l == stopper[g].rl IN
    /\ ~stops.panicked
    /\ stopper[g].pc = "close"
    /\ IF limiters[l].stopChan = "closed"
       THEN /\ stops' = [stops EXCEPT !.panicked = TRUE]
            /\ UNCHANGED <<limiters, stopper>>
       ELSE /\ limiters' = [limiters EXCEPT ![l].stopChan = "closed"]
            /\ stopper' = [stopper EXCEPT ![g] = IdleStopper]
            /\ stops' = [stops EXCEPT !.closes[l] = @ + 1,
                                      !.returned[l] = @ + 1]
    /\ UNCHANGED <<storeVars, lockVars, now, ticks,
                   limiterVars, tokenVars, pipeVars, environ, main,
                   cfg, srv, bg>>

(* cleanup: the ticker case of the select; the sweep itself is the subject
   of the rate limiter's own specification. *)
CleanupTick(l) ==
    /\ ~stops.panicked
    /\ limiters[l].cleanup = "running"
    /\ now >= limiters[l].nextTick
    /\ limiters' = [limiters EXCEPT
                      ![l].nextTick = NextTickAfter(limiters[l].nextTick, now)]
    /\ UNCHANGED <<storeVars, lockVars, now, ticks,
                   limiterVars, tokenVars, pipeVars, environ, main,
                   cfg, srv, bg, stopper, stops>>

(* cleanup: the stopChan case of the select; the goroutine returns. *)
CleanupReturn(l) ==
    /\ ~stops.panicked
    /\ limiters[l].cleanup = "running"
    /\ limiters[l].stopChan = "closed"
    /\ limiters' = [limiters EXCEPT ![l].cleanup = "returned"]
    /\ UNCHANGED <<storeVars, lockVars, now, ticks,
                   limiterVars, tokenVars, pipeVars, environ, main,
                   cfg, srv, bg, stopper, stops>>

TickStop ==
    /\ ~stops.panicked
    /\ ticks < MaxTicks
    /\ now' = now + CleanupInterval
    /\ ticks' = ticks + 1
    /\ UNCHANGED <<limiterVars, tokenVars, pipeVars, lifeVars,
                   storeVars, lockVars>>

InitStop ==
    /\ limiters = [l \in LimiterNames |-> StartedLimiter(now)]
    /\ stopper = [g \in Goroutines |-> IdleStopper]
    /\ stops = NoStops

NextStop ==
    \/ \E g \in Goroutines, l \in LimiterNames : StopBegin(g, l)
    \/ \E g \in Goroutines : StopSwap(g)
    \/ \E g \in Goroutines : StopClose(g)
    \/ \E l \in LimiterNames : CleanupTick(l)
    \/ \E l \in LimiterNames : CleanupReturn(l)
    \/ TickStop

----------------------------------------------------------------------------
(* The process: start-up, serving, shutdown. *)

ExitCodeSuccess == 0
ExitCodeConfigError == 1
ExitCodeStoreError == 2
ExitCodeServerError == 3
NoExit == 0 - 1

GracefulShutdownTimeout == 30 * Second
StartShutdownTimeout == 5 * Second

(* The two entry points: main.go and cmd/server/main.go. *)
Entries == {"main", "cmd/server"}

Environments == {[JWT_SECRET |-> ""], [JWT_SECRET |-> JWTSecret]}

NoMain == [entry |-> "", pc |-> "none", exit |-> NoExit, deadline |-> 0]
NoCfg == [JWTSecret |-> ""]
NoServer == [built |-> FALSE, listening |-> FALSE, shut |-> FALSE,
             accepted |-> 0, inflight |-> 0, completed |-> 0, aborted |-> 0]
NoBackground == [starter |-> "none", watcher |-> "none", until |-> 0,
                 signal |-> FALSE,
                 serverErrors |-> [buf |-> <<>>, closed |-> FALSE]]

(* config.Load: JWT_SECRET from the environment, "" when unset. *)
Load(env) == [JWTSecret |-> env.JWT_SECRET]

(* validateConfiguration *)
validateConfigurationLax(c) == "nil"

validateConfiguration(c) ==
    IF c.JWTSecret = "" THEN "JWT_SECRET is required" ELSE "nil"

(* The process ends: the requests still in flight are cut off. *)
Exit(code) ==
    /\ main' = [main EXCEPT !.pc = "exited", !.exit = code]
    /\ srv' = [srv EXCEPT !.listening = FALSE, !.inflight = 0,
                          !.aborted = srv.inflight]

(* http.Server.Shutdown begins: the listeners are closed. *)
ShutdownBegun == [srv EXCEPT !.shut = TRUE, !.listening = FALSE]

(* run / main: cfg, err := config.Load() *)
MainLoad ==
    /\ main.pc = "load"
    /\ cfg' = Load(environ)
    /\ main' = [main EXCEPT !.pc = "validate"]
    /\ UNCHANGED <<storeVars, lockVars, now, ticks,
                   limiterVars, tokenVars, pipeVars, environ, srv,
                   bg, limiters, stopper, stops>>

(* run: validateConfiguration; cmd/server main: cfg.JWTSecret == "". *)
MainValidate ==
    /\ main.pc = "validate"
    /\ IF validateConfiguration(cfg) # "nil"
       THEN Exit(ExitCodeConfigError)
       ELSE main' = [main EXCEPT !.pc = "store"] /\ UNCHANGED srv
    /\ UNCHANGED <<storeVars, lockVars, now, ticks,
                   limiterVars, tokenVars, pipeVars, environ, cfg,
                   bg, limiters, stopper, stops>>

(* run: initializeStore and Ping, then auth.New and handlers.New. *)
MainStore(ok) ==
    /\ main.pc = "store"
    /\ IF ok
       THEN main' = [main EXCEPT !.pc = "new"] /\ UNCHANGED srv
       ELSE Exit(IF main.entry = "main" THEN ExitCodeStoreError
                 ELSE ExitCodeConfigError)
    /\ UNCHANGED <<storeVars, lockVars, now, ticks,
                   limiterVars, tokenVars, pipeVars, environ, cfg,
                   bg, limiters, stopper, stops>>

(* server.New: the two rate limiters, the routes, the http.Server. *)
NewServer ==
    /\ main.pc = "new"
    /\ limiters' = [l \in LimiterNames |-> StartedLimiter(now)]
    /\ srv' = [srv EXCEPT !.built = TRUE]
    /\ main' = [main EXCEPT !.pc = "run"]
    /\ UNCHANGED <<storeVars, lockVars, now, ticks,
                   limiterVars, tokenVars, pipeVars, environ, cfg,
                   bg, stopper, stops>>

(* runServerWithGracefulShutdown: signal.NotifyContext, go srv.Start(ctx),
   and on to the select (cmd/server main: on to <-ctx.Done()). *)
RunServer ==
    /\ main.pc = "run"
    /\ bg' = [bg EXCEPT !.starter = "start"]
    /\ main' = [main EXCEPT !.pc = "wait"]
    /\ UNCHANGED <<storeVars, lockVars, now, ticks,
                   limiterVars, tokenVars, pipeVars, environ, cfg,
                   srv, limiters, stopper, stops>>

(* Server.Start: the goroutine that waits for ctx.Done() is launched. *)
StartWatcher ==
    /\ main.pc # "exited"
    /\ bg.starter = "start"
    /\ bg' = [bg EXCEPT !.starter = "listen", !.watcher = "waiting"]
    /\ UNCHANGED <<storeVars, lockVars, now, ticks,
                   limiterVars, tokenVars, pipeVars, environ, main,
                   cfg, srv, limiters, stopper, stops>>

(* Server.Start: ListenAndServe binds the address, or fails to, or finds
   the server already shut down. *)
ListenAndServe(bound) ==
    /\ main.pc # "exited"
    /\ bg.starter = "listen"
    /\ IF srv.shut
       THEN bg' = [bg EXCEPT !.starter = "closed"] /\ UNCHANGED srv
       ELSE IF bound
            THEN /\ bg' = [bg EXCEPT !.starter = "serving"]
                 /\ srv' = [srv EXCEPT !.listening = TRUE]
            ELSE bg' = [bg EXCEPT !.starter = "failed"] /\ UNCHANGED srv
    /\ UNCHANGED <<storeVars, lockVars, now, ticks,
                   limiterVars, tokenVars, pipeVars, environ, main,
                   cfg, limiters, stopper, stops>>

(* The goroutine of runServerWithGracefulShutdown: srv.Start has returned;
   an error other than ErrServerClosed is sent, and serverErrors is closed. *)
StartReturned ==
    /\ main.pc # "exited"
    /\ \/ bg.starter \in {"closed", "failed"}
       \/ bg.starter = "serving" /\ srv.shut
    /\ bg' = [bg EXCEPT
                !.starter = "returned",
                !.serverErrors =
                    IF main.entry = "main"
                    THEN [buf |-> IF bg.starter = "failed"
                                  THEN <<"server start">> ELSE <<>>,
                          closed |-> TRUE]
                    ELSE @]
    /\ UNCHANGED <<storeVars, lockVars, now, ticks,
                   limiterVars, tokenVars, pipeVars, environ, main,
                   cfg, srv, limiters, stopper, stops>>

(* SIGINT or SIGTERM is delivered: the context is cancelled. *)
Signal ==
    /\ main.pc \in {"wait", "shutdown"}
    /\ ~bg.signal
    /\ bg' = [bg EXCEPT !.signal = TRUE]
    /\ UNCHANGED <<storeVars, lockVars, now, ticks,
                   limiterVars, tokenVars, pipeVars, environ, main,
                   cfg, srv, limiters, stopper, stops>>

(* Server.Start, the waiting goroutine: httpServer.Shutdown with 5 seconds. *)
WatcherShutdown ==
    /\ main.pc # "exited"
    /\ bg.watcher = "waiting"
    /\ bg.signal
    /\ bg' = [bg EXCEPT !.watcher = "shutdown",
                        !.until = now + StartShutdownTimeout]
    /\ srv' = ShutdownBegun
    /\ UNCHANGED <<storeVars, lockVars, now, ticks,
                   limiterVars, tokenVars, pipeVars, environ, main,
                   cfg, limiters, stopper, stops>>

(* ... which returns when no request is in flight or the 5 seconds are
   over; its result is dropped. *)
WatcherDone ==
    /\ main.pc # "exited"
    /\ bg.watcher = "shutdown"
    /\ srv.inflight = 0 \/ now >= bg.until
    /\ bg' = [bg EXCEPT !.watcher = "done"]
    /\ UNCHANGED <<storeVars, lockVars, now, ticks,
                   limiterVars, tokenVars, pipeVars, environ, main,
                   cfg, srv, limiters, stopper, stops>>

(* runServerWithGracefulShutdown, the select: case err := <-serverErrors. *)
MainServerError ==
    /\ main.pc = "wait"
    /\ main.entry = "main"
    /\ bg.serverErrors.buf # <<>> \/ bg.serverErrors.closed
    /\ Exit(IF bg.serverErrors.buf # <<>> THEN ExitCodeServerError
            ELSE ExitCodeSuccess)
    /\ UNCHANGED <<storeVars, lockVars, now, ticks,
                   limiterVars, tokenVars, pipeVars, environ, cfg,
                   bg, limiters, stopper, stops>>

(* The select, case <-ctx.Done(): srv.Shutdown within the grace period. *)
MainShutdown ==
    /\ main.pc = "wait"
    /\ bg.signal
    /\ main' = [main EXCEPT !.pc = "shutdown",
                            !.deadline = now + GracefulShutdownTimeout]
    /\ srv' = ShutdownBegun
    /\ UNCHANGED <<storeVars, lockVars, now, ticks,
                   limiterVars, tokenVars, pipeVars, environ, cfg,
                   bg, limiters, stopper, stops>>

(* srv.Shutdown returns nil once no request is in flight, and the context's
   error once the grace period is over; then main returns. *)
MainShutdownReturned ==
    /\ main.pc = "shutdown"
    /\ \/ /\ srv.inflight = 0
          /\ Exit(ExitCodeSuccess)
       \/ /\ srv.inflight > 0
          /\ now >= main.deadline
          /\ Exit(IF main.entry = "main" THEN ExitCodeServerError
                  ELSE ExitCodeSuccess)
    /\ UNCHANGED <<storeVars, lockVars, now, ticks,
                   limiterVars, tokenVars, pipeVars, environ, cfg,
                   bg, limiters, stopper, stops>>

(* A request is accepted by the listening server. *)
RequestArrives ==
    /\ srv.listening
    /\ srv.accepted < MaxConns
    /\ srv' = [srv EXCEPT !.accepted = @ + 1, !.inflight = @ + 1]
    /\ UNCHANGED <<storeVars, lockVars, now, ticks,
                   limiterVars, tokenVars, pipeVars, environ, main,
                   cfg, bg, limiters, stopper, stops>>

(* A request in flight is answered. *)
RequestCompletes ==
    /\ main.pc # "exited"
    /\ srv.inflight > 0
    /\ srv' = [srv EXCEPT !.inflight = @ - 1, !.completed = @ + 1]
    /\ UNCHANGED <<storeVars, lockVars, now, ticks,
                   limiterVars, tokenVars, pipeVars, environ, main,
                   cfg, bg, limiters, stopper, stops>>

ProcessSteps == {StartShutdownTimeout, GracefulShutdownTimeout}

TickProcess ==
    /\ main.pc # "exited"
    /\ ticks < MaxTicks
    /\ \E d \in ProcessSteps : now' = now + d
    /\ ticks' = ticks + 1
    /\ UNCHANGED <<limiterVars, tokenVars, pipeVars, lifeVars,
                   storeVars, lockVars>>

InitProcess ==
    /\ environ \in Environments
    /\ \E e \in Entries : main = [NoMain EXCEPT !.entry = e, !.pc = "load"]
    /\ cfg = NoCfg
    /\ srv = NoServer
    /\ bg = NoBackground

NextProcess ==
    \/ MainLoad
    \/ MainValidate
    \/ \E ok \in BOOLEAN : MainStore(ok)
    \/ NewServer
    \/ RunServer
    \/ StartWatcher
    \/ \E bound \in BOOLEAN : ListenAndServe(bound)
    \/ StartReturned
    \/ Signal
    \/ WatcherShutdown
    \/ WatcherDone
    \/ MainServerError
    \/ MainShutdown
    \/ MainShutdownReturned
    \/ RequestArrives
    \/ RequestCompletes
    \/ TickProcess

----------------------------------------------------------------------------
(* The rate limiter with its locks: RateLimiter.mu over the map, visitor.mu
   over each bucket, the cleanup goroutine at its select, and Stop. *)

MaxAllows == 2
MaxLockTicks == 1
MaxLockStops == 1

Clients == {"10.0.0.1", "10.0.0.2"}

(* The limiter the locks are studied on. *)
LockedLimiter == "generalRateLimit"

(* The cleanup goroutine, beside the goroutines 1..NumGoroutines in Allow. *)
CleanupGor == 0

NoHolder == 0 - 1

Slots == 1..(Cardinality(Clients) + NumGoroutines)

FreeSlot ==
    CHOOSE a \in Slots :
        /\ a \notin Referenced(visitors, gor)
        /\ \A b \in Slots : b < a => b \in Referenced(visitors, gor)

Reclaim(h, vs, gs) ==
    [a \in Slots |-> IF a \in Referenced(vs, gs) THEN h[a] ELSE Free]

(* sync.RWMutex: the goroutines holding it for reading, the one holding it
   for writing, and the ones blocked in Lock; a blocked Lock keeps new
   readers out. *)
NewRWMutex == [readers |-> {}, writer |-> NoHolder, pending |-> {}]

CanRLock(m) == m.writer = NoHolder /\ m.pending = {}
RLock(m, t) == [m EXCEPT !.readers = @ \cup {t}]
RUnlock(m, t) == [m EXCEPT !.readers = @ \ {t}]

CanLock(m) == m.writer = NoHolder /\ m.readers = {}
LockCall(m, t) == [m EXCEPT !.pending = @ \cup {t}]
Lock(m, t) == [m EXCEPT !.writer = t, !.pending = @ \ {t}]
Unlock(m, t) == [m EXCEPT !.writer = NoHolder]

(* sync.Mutex of the visitor at address a. *)
VisitorUnlockNever(m, a) == m

VisitorLock(m, a, t) == [m EXCEPT ![a] = t]
VisitorUnlock(m, a) == [m EXCEPT ![a] = NoHolder]

(* rl.visitors[ip] *)
LookupShared(vs, ip) ==
    IF DOMAIN vs = {} THEN NoVisitor
    ELSE vs[CHOOSE k \in DOMAIN vs : TRUE]

Lookup(vs, ip) == IF ip \in DOMAIN vs THEN vs[ip] ELSE NoVisitor

(* The cases of cleanup's select that can proceed; Go picks one of them at
   random. *)
ReadyTickFirst(tick, stopChan) ==
    IF tick THEN {"tick"} ELSE IF stopChan = "closed" THEN {"stop"} ELSE {}

Ready(tick, stopChan) ==
    (IF tick THEN {"tick"} ELSE {}) \cup
    (IF stopChan = "closed" THEN {"stop"} ELSE {})

AtSelect == [pc |-> "select", cutoff |-> 0, todo |-> {}, toDelete |-> {},
             cur |-> ""]

(* The history of the calls: the goroutines whose call began after the stop
   channel was closed, and how many of those calls have returned. *)
NoLockHist == [sinceStop |-> {}, servedSinceStop |-> 0]

Returned(g, h) ==
    [h EXCEPT !.sinceStop = @ \ {g},
              !.servedSinceStop = IF g \in h.sinceStop /\ @ < MaxAllows
                                  THEN @ + 1 ELSE @]

(* Allow, entry: now := time.Now(). *)
AllowEnter(g, ip) ==
    /\ gor[g].pc = "idle"
    /\ \A h \in Goroutines : h < g => gor[h].pc # "idle"
    /\ calls < MaxAllows
    /\ calls' = calls + 1
    /\ gor' = [gor EXCEPT ![g] = [pc |-> "rlock", ip |-> ip, now |-> now,
                                  v |-> NoVisitor]]
    /\ hist' = IF limiters[LockedLimiter].stopChan = "closed"
               THEN [hist EXCEPT !.sinceStop = @ \cup {g}] ELSE hist
    /\ UNCHANGED <<storeVars, lockVars, now, ticks, rate, capacity, visitors,
                   heap, sweep, nextSweep, admitted, decided, disturbed,
                   tokenVars, pipeVars, lifeVars>>

(* Allow: rl.mu.RLock() *)
AllowRLock(g) ==
    /\ gor[g].pc = "rlock"
    /\ CanRLock(mu)
    /\ mu' = RLock(mu, g)
    /\ gor' = [gor EXCEPT ![g].pc = "read"]
    /\ UNCHANGED <<storeVars, vmu, ticker, now, ticks, rate, capacity,
                   visitors, heap, calls, sweep, nextSweep, admitted, decided,
                   disturbed, hist, tokenVars, pipeVars, lifeVars>>

(* Allow: v, exists := rl.visitors[ip]; rl.mu.RUnlock() *)
AllowRead(g) ==
    LET v == Lookup(visitors, gor[g].ip) IN
    /\ gor[g].pc = "read"
    /\ mu' = RUnlock(mu, g)
    /\ gor' = [gor EXCEPT ![g] =
                 IF v # NoVisitor
                 THEN [@ EXCEPT !.pc = "vlock", !.v = v]
                 ELSE [@ EXCEPT !.pc = "lock"]]
    /\ UNCHANGED <<storeVars, vmu, ticker, now, ticks, rate, capacity,
                   visitors, heap, calls, sweep, nextSweep, admitted, decided,
                   disturbed, hist, tokenVars, pipeVars, lifeVars>>

(* Allow: rl.mu.Lock() is called and blocks. *)
AllowLockCall(g) ==
    /\ gor[g].pc = "lock"
    /\ mu' = LockCall(mu, g)
    /\ gor' = [gor EXCEPT ![g].pc = "locking"]
    /\ UNCHANGED <<storeVars, vmu, ticker, now, ticks, rate, capacity,
                   visitors, heap, calls, sweep, nextSweep, admitted, decided,
                   disturbed, hist, tokenVars, pipeVars, lifeVars>>

(* Allow: rl.mu.Lock() returns. *)
AllowLock(g) ==
    /\ gor[g].pc = "locking"
    /\ CanLock(mu)
    /\ mu' = Lock(mu, g)
    /\ gor' = [gor EXCEPT ![g].pc = "insert"]
    /\ UNCHANGED <<storeVars, vmu, ticker, now, ticks, rate, capacity,
                   visitors, heap, calls, sweep, nextSweep, admitted, decided,
                   disturbed, hist, tokenVars, pipeVars, lifeVars>>

(* Allow: the double check under the write lock; the visitor is made and
   the call returns true, or the lock is released and the call goes on with
   the visitor found. *)
AllowInsert(g) ==
    LET ip == gor[g].ip
        v == Lookup(visitors, ip)
    IN
    /\ gor[g].pc = "insert"
    /\ mu' = Unlock(mu, g)
    /\ IF v # NoVisitor
       THEN /\ gor' = [gor EXCEPT ![g] = [@ EXCEPT !.pc = "vlock", !.v = v]]
            /\ UNCHANGED <<visitors, heap, admitted, decided, hist>>
       ELSE /\ heap' = [heap EXCEPT ![FreeSlot] = NewVisitor(gor[g].now)]
            /\ visitors' = [i \in DOMAIN visitors \cup {ip} |->
                              IF i = ip THEN FreeSlot ELSE visitors[i]]
            /\ admitted' = [admitted EXCEPT ![ip] = @ + 1]
            /\ decided' = [decided EXCEPT ![ip] = @ + 1]
            /\ hist' = Returned(g, hist)
            /\ gor' = [gor EXCEPT ![g] = IdleGor]
    /\ UNCHANGED <<storeVars, vmu, ticker, now, ticks, rate, capacity, calls,
                   sweep, nextSweep, disturbed, tokenVars, pipeVars, lifeVars>>

(* Allow: v.mu.Lock() *)
AllowVisitorLock(g) ==
    /\ gor[g].pc = "vlock"
    /\ vmu[gor[g].v] = NoHolder
    /\ vmu' = VisitorLock(vmu, gor[g].v, g)
    /\ gor' = [gor EXCEPT ![g].pc = "spend"]
    /\ UNCHANGED <<storeVars, mu, ticker, now, ticks, rate, capacity,
                   visitors, heap, calls, sweep, nextSweep, admitted, decided,
                   disturbed, hist, tokenVars, pipeVars, lifeVars>>

(* Allow: the refill and the consumption; the deferred v.mu.Unlock(). *)
AllowSpend(g) ==
    LET ip == gor[g].ip
        filled == Refill(heap[gor[g].v], gor[g].now)
    IN
    /\ gor[g].pc = "spend"
    /\ gor' = [gor EXCEPT ![g] = IdleGor]
    /\ vmu' = VisitorUnlock(vmu, gor[g].v)
    /\ IF filled.tokens > 0
       THEN /\ heap' = Reclaim([heap EXCEPT ![gor[g].v] = Consume(filled)],
                               visitors, gor')
            /\ admitted' = [admitted EXCEPT ![ip] = @ + 1]
       ELSE /\ heap' = Reclaim([heap EXCEPT ![gor[g].v] = filled],
                               visitors, gor')
            /\ UNCHANGED admitted
    /\ decided' = [decided EXCEPT ![ip] = @ + 1]
    /\ hist' = Returned(g, hist)
    /\ UNCHANGED <<storeVars, mu, ticker, now, ticks, rate, capacity,
                   visitors, calls, sweep, nextSweep, disturbed, tokenVars,
                   pipeVars, lifeVars>>

(* time.Ticker: a tick is put in the channel, which holds one; the period
   is left out, so that a tick may arrive at any moment and ticks keep
   arriving. *)
TickerFire ==
    /\ limiters[LockedLimiter].cleanup = "running"
    /\ ~ticker
    /\ ticker' = TRUE
    /\ UNCHANGED <<storeVars, mu, vmu, now, ticks, limiterVars, tokenVars,
                   pipeVars, lifeVars>>

(* cleanup: the select takes the tick and cleanupVisitors begins: the
   cutoff, and rl.mu.RLock(). *)
CleanupSelectTick ==
    /\ limiters[LockedLimiter].cleanup = "running"
    /\ sweep.pc = "select"
    /\ "tick" \in Ready(ticker, limiters[LockedLimiter].stopChan)
    /\ ticker' = FALSE
    /\ sweep' = [AtSelect EXCEPT !.pc = "rlock", !.cutoff = now - Retention]
    /\ UNCHANGED <<storeVars, mu, vmu, now, ticks, rate, capacity, visitors,
                   heap, gor, calls, nextSweep, admitted, decided, disturbed,
                   hist, tokenVars, pipeVars, lifeVars>>

(* cleanup: the select takes the closed stop channel and the goroutine
   returns; the deferred ticker.Stop(). *)
CleanupSelectStop ==
    /\ limiters[LockedLimiter].cleanup = "running"
    /\ sweep.pc = "select"
    /\ "stop" \in Ready(ticker, limiters[LockedLimiter].stopChan)
    /\ limiters' = [limiters EXCEPT ![LockedLimiter].cleanup = "returned"]
    /\ sweep' = [AtSelect EXCEPT !.pc = "returned"]
    /\ UNCHANGED <<storeVars, lockVars, now, ticks, rate, capacity, visitors,
                   heap, gor, calls, nextSweep, admitted, decided, disturbed,
                   hist, tokenVars, pipeVars, environ, main, cfg, srv, bg,
                   stopper, stops>>

(* cleanupVisitors: rl.mu.RLock() returns; the range over the map. *)
CleanupRLock ==
    /\ sweep.pc = "rlock"
    /\ CanRLock(mu)
    /\ mu' = RLock(mu, CleanupGor)
    /\ sweep' = [sweep EXCEPT !.pc = "range", !.todo = DOMAIN visitors]
    /\ UNCHANGED <<storeVars, vmu, ticker, now, ticks, rate, capacity,
                   visitors, heap, gor, calls, nextSweep, admitted, decided,
                   disturbed, hist, tokenVars, pipeVars, lifeVars>>

(* cleanupVisitors: the next visitor of the range, v.mu.Lock(). *)
CleanupVisitorLock(ip) ==
    /\ sweep.pc = "range"
    /\ ip \in sweep.todo
    /\ vmu[visitors[ip]] = NoHolder
    /\ vmu' = VisitorLock(vmu, visitors[ip], CleanupGor)
    /\ sweep' = [sweep EXCEPT !.pc = "examine", !.cur = ip]
    /\ UNCHANGED <<storeVars, mu, ticker, now, ticks, rate, capacity,
                   visitors, heap, gor, calls, nextSweep, admitted, decided,
                   disturbed, hist, tokenVars, pipeVars, lifeVars>>

(* cleanupVisitors: v.lastSeen.Before(cutoff), and v.mu.Unlock(). *)
CleanupExamine ==
    LET ip == sweep.cur IN
    /\ sweep.pc = "examine"
    /\ vmu' = VisitorUnlock(vmu, visitors[ip])
    /\ sweep' = [sweep EXCEPT
                   !.pc = "range",
                   !.cur = "",
                   !.todo = @ \ {ip},
                   !.toDelete = IF Stale(heap[visitors[ip]], sweep.cutoff)
                                THEN @ \cup {ip} ELSE @]
    /\ UNCHANGED <<storeVars, mu, ticker, now, ticks, rate, capacity,
                   visitors, heap, gor, calls, nextSweep, admitted, decided,
                   disturbed, hist, tokenVars, pipeVars, lifeVars>>

(* cleanupVisitors: the range is over, rl.mu.RUnlock(); with nothing to
   delete the sweep is over. *)
CleanupRUnlock ==
    /\ sweep.pc = "range"
    /\ sweep.todo = {}
    /\ mu' = RUnlock(mu, CleanupGor)
    /\ sweep' = IF sweep.toDelete = {} THEN AtSelect
                ELSE [sweep EXCEPT !.pc = "lock"]
    /\ UNCHANGED <<storeVars, vmu, ticker, now, ticks, rate, capacity,
                   visitors, heap, gor, calls, nextSweep, admitted, decided,
                   disturbed, hist, tokenVars, pipeVars, lifeVars>>

(* cleanupVisitors: rl.mu.Lock() is called and blocks. *)
CleanupLockCall ==
    /\ sweep.pc = "lock"
    /\ mu' = LockCall(mu, CleanupGor)
    /\ sweep' = [sweep EXCEPT !.pc = "locking"]
    /\ UNCHANGED <<storeVars, vmu, ticker, now, ticks, rate, capacity,
                   visitors, heap, gor, calls, nextSweep, admitted, decided,
                   disturbed, hist, tokenVars, pipeVars, lifeVars>>

(* cleanupVisitors: rl.mu.Lock() returns. *)
CleanupLock ==
    /\ sweep.pc = "locking"
    /\ CanLock(mu)
    /\ mu' = Lock(mu, CleanupGor)
    /\ sweep' = [sweep EXCEPT !.pc = "delete"]
    /\ UNCHANGED <<storeVars, vmu, ticker, now, ticks, rate, capacity,
                   visitors, heap, gor, calls, nextSweep, admitted, decided,
                   disturbed, hist, tokenVars, pipeVars, lifeVars>>

(* cleanupVisitors: the deletions, and rl.mu.Unlock(). *)
CleanupDelete ==
    /\ sweep.pc = "delete"
    /\ visitors' = [i \in DOMAIN visitors \ sweep.toDelete |-> visitors[i]]
    /\ heap' = Reclaim(heap, visitors', gor)
    /\ mu' = Unlock(mu, CleanupGor)
    /\ sweep' = AtSelect
    /\ UNCHANGED <<storeVars, vmu, ticker, now, ticks, rate, capacity, gor,
                   calls, nextSweep, admitted, decided, disturbed, hist,
                   tokenVars, pipeVars, lifeVars>>

(* The clock advances: long enough for a refill and for a bucket to become
   stale. *)
TickLocks ==
    /\ ticks < MaxLockTicks
    /\ now' = now + Retention + 1 * Second
    /\ ticks' = ticks + 1
    /\ UNCHANGED <<limiterVars, tokenVars, pipeVars, lifeVars, storeVars,
                   lockVars>>

(* NewRateLimiter(time.Second, 1), nobody in Allow, no tick yet. *)
InitLocks ==
    /\ rate = 1 * Second
    /\ capacity = 1
    /\ visitors = [ip \in {} |-> NoVisitor]
    /\ heap = [a \in Slots |-> Free]
    /\ gor = [g \in Goroutines |-> IdleGor]
    /\ calls = 0
    /\ sweep = AtSelect
    /\ nextSweep = 0
    /\ admitted = [ip \in Clients |-> 0]
    /\ decided = [ip \in Clients |-> 0]
    /\ disturbed = <<>>
    /\ hist = NoLockHist
    /\ mu = NewRWMutex
    /\ vmu = [a \in Slots |-> NoHolder]
    /\ ticker = FALSE
    /\ limiters = [l \in LimiterNames |->
                     IF l = LockedLimiter THEN StartedLimiter(now)
                     ELSE NoLimiter]
    /\ stopper = [g \in Goroutines |-> IdleStopper]
    /\ stops = NoStops
    /\ environ = <<>>
    /\ main = <<>>
    /\ cfg = <<>>
    /\ srv = <<>>
    /\ bg = <<>>

AllowStep(g) ==
    \/ AllowRLock(g)
    \/ AllowRead(g)
    \/ AllowLockCall(g)
    \/ AllowLock(g)
    \/ AllowInsert(g)
    \/ AllowVisitorLock(g)
    \/ AllowSpend(g)

CleanupStep ==
    \/ CleanupSelectTick
    \/ CleanupRLock
    \/ \E ip \in Clients : CleanupVisitorLock(ip)
    \/ CleanupExamine
    \/ CleanupRUnlock
    \/ CleanupLockCall
    \/ CleanupLock
    \/ CleanupDelete

NextLocks ==
    \/ \E g \in Goroutines, ip \in Clients : AllowEnter(g, ip)
    \/ \E g \in Goroutines : AllowStep(g)
    \/ TickerFire
    \/ CleanupStep
    \/ TickLocks

(* Stop is called on the limiter. *)
StopLocked(g) ==
    /\ stops.begun < MaxLockStops
    /\ StopBegin(g, LockedLimiter)

StopStep(g) == StopSwap(g) \/ StopClose(g)

NextLocksStop ==
    \/ NextLocks
    \/ CleanupSelectStop
    \/ \E g \in Goroutines : StopLocked(g)
    \/ \E g \in Goroutines : StopStep(g)

(* What the scheduling of Go gives the goroutines.  A goroutine that can
   take its next step takes it.  A goroutine blocked in v.mu.Lock() gets
   the lock even when the cleanup goroutine takes and releases it again and
   again: sync.Mutex hands the lock to a waiter that starves.  The select
   picks among its ready cases at random, so the stop case, ready each time
   the goroutine is back at the select, is taken.  Nothing obliges a caller
   to call Allow or Stop, the ticker to tick or the clock to advance. *)
FairLocks ==
    /\ \A g \in Goroutines : SF_vars(AllowStep(g))
    /\ WF_vars(\E g \in Goroutines : StopStep(g))
    /\ WF_vars(CleanupRLock \/ (\E ip \in Clients : CleanupVisitorLock(ip))
                   \/ CleanupExamine \/ CleanupRUnlock \/ CleanupLockCall
                   \/ CleanupLock \/ CleanupDelete)
    /\ SF_vars(CleanupSelectStop)

----------------------------------------------------------------------------
(* The rate limiter with calls and sweeps one after the other, beside a
   limiter that is given the same calls and whose cleanup never runs. *)

(* The bucket of a key without one. *)
NoBucket == [lastSeen |-> 0 - 1, tokens |-> 0 - 1]

(* Allow as a whole on the bucket b of its key at time t: the visitor it
   leaves and what it returns. *)
AllowWhole(b, t) ==
    IF b = NoBucket
    THEN [v |-> NewVisitor(t), ok |-> TRUE]
    ELSE LET filled == Refill(b, t)
         IN IF filled.tokens > 0
            THEN [v |-> Consume(filled), ok |-> TRUE]
            ELSE [v |-> filled, ok |-> FALSE]

(* The bucket the limiter holds for the key. *)
BucketOf(ip) ==
    IF ip \in DOMAIN visitors THEN heap[visitors[ip]] ELSE NoBucket

(* What the history keeps: the buckets of the limiter that never evicts,
   what the last call returned in each limiter and for which key, and
   whether a call or a sweep came last. *)
NoEvictHist == [never |-> [ip \in IPs |-> NoBucket], ok |-> FALSE,
                okNever |-> FALSE, ip |-> "", last |-> "none",
                evictions |-> 0]

(* Allow(ip), from entry to return with no sweep in between, in both
   limiters. *)
AllowAlone(ip) ==
    LET here == AllowWhole(BucketOf(ip), now)
        there == AllowWhole(hist.never[ip], now)
        a == IF ip \in DOMAIN visitors THEN visitors[ip] ELSE FreshAddress
    IN
    /\ calls < MaxCalls
    /\ calls' = calls + 1
    /\ visitors' = [i \in DOMAIN visitors \cup {ip} |->
                      IF i = ip THEN a ELSE visitors[i]]
    /\ heap' = [heap EXCEPT ![a] = here.v]
    /\ hist' = [hist EXCEPT !.never[ip] = there.v,
                            !.ok = here.ok,
                            !.okNever = there.ok,
                            !.ip = ip,
                            !.last = "allow"]
    /\ UNCHANGED <<storeVars, lockVars, now, ticks, rate, capacity, gor,
                   sweep, nextSweep, admitted, decided, disturbed, tokenVars,
                   pipeVars, lifeVars>>

(* The ticker fires and cleanupVisitors runs from entry to return with no
   call in between. *)
SweepAlone ==
    LET toDelete == {ip \in DOMAIN visitors :
                        Stale(heap[visitors[ip]], now - Retention)}
    IN
    /\ now >= nextSweep
    /\ nextSweep' = NextTickAfter(nextSweep, now)
    /\ visitors' = [i \in DOMAIN visitors \ toDelete |-> visitors[i]]
    /\ heap' = Collect(heap, visitors', gor)
    /\ hist' = [hist EXCEPT !.last = "sweep",
                            !.evictions = IF toDelete # {} /\ @ < MaxTicks
                                          THEN @ + 1 ELSE @]
    /\ UNCHANGED <<storeVars, lockVars, now, ticks, rate, capacity, gor,
                   calls, sweep, admitted, decided, disturbed, tokenVars,
                   pipeVars, lifeVars>>

TickAlone ==
    /\ ticks < MaxTicks
    /\ \E d \in LimiterSteps : now' = now + d
    /\ ticks' = ticks + 1
    /\ UNCHANGED <<limiterVars, tokenVars, pipeVars, lifeVars, storeVars,
                   lockVars>>

(* NewRateLimiter(r, c) with c * r no longer than the retention. *)
InitAlone ==
    /\ \E r \in Rates, c \in Capacities :
          c * r <= Retention /\ NewRateLimiter(r, c)
    /\ gor = [g \in Goroutines |-> IdleGor]
    /\ calls = 0
    /\ admitted = <<>>
    /\ decided = <<>>
    /\ disturbed = <<>>
    /\ hist = NoEvictHist

NextAlone ==
    \/ \E ip \in IPs : AllowAlone(ip)
    \/ SweepAlone
    \/ TickAlone

----------------------------------------------------------------------------
(* Registration: Handlers.Register over the user store, in memory or in
   SQLite, served by several goroutines at once. *)

NumHandlers == 2

Handlers == 1..NumHandlers

StoreKinds == {"memory", "sqlite"}

(* The usernames and e-mail addresses of the requests; all in lower case,
   so that the NOCASE collation of the SQLite columns plays no part. *)
Usernames == {"alice", "carol", "al", "admin"}
Emails == {"a@example.com", "c@example.com"}

NameLength == [u \in Usernames |->
                  IF u = "al" THEN 2 ELSE 5]

MinUsernameLength == 3

Reserved == {"admin", "root", "user", "api", "www", "mail", "system",
             "support", "null", "undefined"}

(* validation.ValidateUsername: the message of the error, none when valid. *)
ValidateUsername(username) ==
    IF username = "" THEN "username is required"
    ELSE IF NameLength[username] < MinUsernameLength
    THEN "username must be at least 3 characters"
    ELSE IF username \in Reserved THEN "username is reserved"
    ELSE ""

NoUser == [username |-> "", email |-> ""]

(* NewMemStore, and the users table of a fresh SQLite database. *)
NewStore(kind) ==
    IF kind = "memory"
    THEN [kind |-> kind, next |-> 1, users |-> <<>>, byName |-> <<>>]
    ELSE [kind |-> kind, next |-> 1, users |-> <<>>]

(* memStore.GetUserByUsername *)
MemGetUserByUsername(s, username) ==
    IF username \in DOMAIN s.byName
    THEN [user |-> s.users[s.byName[username]], err |-> ""]
    ELSE [user |-> NoUser, err |-> ""]

(* memStore.CreateUser: under m.mu, the next id, the user under the id and
   the id under the name. *)
MemCreateUser(s, u) ==
    [store |-> [s EXCEPT !.next = @ + 1,
                         !.users = (s.next :> u) @@ @,
                         !.byName = (u.username :> s.next) @@ @],
     id |-> s.next,
     err |-> ""]

(* sqliteStore.GetUserByUsername: SELECT ... WHERE username = ? *)
SqlGetUserByUsername(s, username) ==
    IF username = ""
    THEN [user |-> NoUser, err |-> "username cannot be empty"]
    ELSE IF \E id \in DOMAIN s.users : s.users[id].username = username
    THEN [user |-> s.users[CHOOSE id \in DOMAIN s.users :
                              s.users[id].username = username],
          err |-> ""]
    ELSE [user |-> NoUser, err |-> ""]

(* sqliteStore.CreateUser: the INSERT, which the UNIQUE constraints on
   username and on email refuse. *)
SqlCreateUser(s, u) ==
    IF \E id \in DOMAIN s.users : s.users[id].username = u.username
    THEN [store |-> s, id |-> 0, err |-> "username already exists"]
    ELSE IF \E id \in DOMAIN s.users : s.users[id].email = u.email
    THEN [store |-> s, id |-> 0, err |-> "email already exists"]
    ELSE [store |-> [s EXCEPT !.next = @ + 1,
                              !.users = (s.next :> u) @@ @],
          id |-> s.next,
          err |-> ""]

GetUserByUsername(s, username) ==
    IF s.kind = "memory" THEN MemGetUserByUsername(s, username)
    ELSE SqlGetUserByUsername(s, username)

CreateUser(s, u) ==
    IF s.kind = "memory" THEN MemCreateUser(s, u) ELSE SqlCreateUser(s, u)

IdleHandler == [pc |-> "idle", user |-> NoUser, status |-> 0]

(* Register: the body is decoded, sanitized and validated; a body that does
   not pass is answered 400. The passwords and e-mail addresses of the
   model are valid. *)
RegisterBegin(g, username, email) ==
    /\ regs[g].pc = "idle"
    /\ regs' = [regs EXCEPT ![g] =
                  IF ValidateUsername(username) # ""
                  THEN [pc |-> "done", user |-> NoUser, status |-> 400]
                  ELSE [pc |-> "lookup",
                        user |-> [username |-> username, email |-> email],
                        status |-> 0]]
    /\ UNCHANGED <<store, lockVars, now, ticks, limiterVars, tokenVars,
                   pipeVars, lifeVars>>

(* Register: h.Store.GetUserByUsername; a user of that name is answered
   409 "Username already exists". *)
RegisterLookup(g) ==
    LET found == GetUserByUsername(store, regs[g].user.username) IN
    /\ regs[g].pc = "lookup"
    /\ regs' = [regs EXCEPT ![g] =
                  IF found.err # "" THEN [@ EXCEPT !.pc = "done", !.status = 500]
                  ELSE IF found.user # NoUser
                  THEN [@ EXCEPT !.pc = "done", !.status = 409]
                  ELSE [@ EXCEPT !.pc = "create"]]
    /\ UNCHANGED <<store, lockVars, now, ticks, limiterVars, tokenVars,
                   pipeVars, lifeVars>>

(* Register: the password is hashed and h.Store.CreateUser is called; an
   error that says "already exists" is answered 409, a user created 201. *)
RegisterCreate(g) ==
    LET made == CreateUser(store, regs[g].user) IN
    /\ regs[g].pc = "create"
    /\ store' = made.store
    /\ regs' = [regs EXCEPT ![g] =
                  [@ EXCEPT !.pc = "done",
                            !.status = IF made.err = "" THEN 201 ELSE 409]]
    /\ UNCHANGED <<lockVars, now, ticks, limiterVars, tokenVars, pipeVars,
                   lifeVars>>

InitRegister ==
    /\ store \in {NewStore(kind) : kind \in StoreKinds}
    /\ regs = [g \in Handlers |-> IdleHandler]

NextRegister ==
    \/ \E g \in Handlers, username \in Usernames, email \in Emails :
          RegisterBegin(g, username, email)
    \/ \E g \in Handlers : RegisterLookup(g)
    \/ \E g \in Handlers : RegisterCreate(g)

----------------------------------------------------------------------------
(* The specifications. *)

LimiterAtRest ==
    /\ NewRateLimiter(Second, GeneralCapacity)
    /\ gor = [g \in Goroutines |-> IdleGor]
    /\ calls = 0
    /\ admitted = [ip \in IPs |-> 0]
    /\ decided = [ip \in IPs |-> 0]
    /\ disturbed = [ip \in IPs |-> FALSE]
    /\ hist = NoHist

TokenAtRest ==
    /\ secret = JWTSecret
    /\ held = NoHeld
    /\ parsed = NoParse
    /\ rotated = NoRotate
    /\ wasExpired = FALSE

(* The process as the other specifications see it: configured and serving. *)
ProcessAtRest ==
    /\ environ = [JWT_SECRET |-> JWTSecret]
    /\ main = NoMain
    /\ cfg = Load(environ)
    /\ srv = NoServer
    /\ bg = NoBackground

StopAtRest ==
    /\ limiters = [l \in LimiterNames |-> NoLimiter]
    /\ stopper = [g \in Goroutines |-> IdleStopper]
    /\ stops = NoStops

(* A specification of one component constructed on its own has no state
   for the components it leaves out. *)
Absent == <<>>

LimiterAbsent ==
    /\ rate = 0
    /\ capacity = 0
    /\ visitors = Absent
    /\ heap = Absent
    /\ gor = Absent
    /\ sweep = Absent
    /\ nextSweep = 0
    /\ calls = 0
    /\ admitted = Absent
    /\ decided = Absent
    /\ disturbed = Absent
    /\ hist = Absent

AuthAbsent ==
    /\ secret = ""
    /\ held = Absent
    /\ parsed = Absent
    /\ rotated = Absent
    /\ wasExpired = FALSE

PipelineAbsent ==
    /\ req = Absent
    /\ chain = <<>>
    /\ trace = <<>>
    /\ resp = Absent
    /\ ctx = Absent
    /\ logs = <<>>
    /\ served = 0
    /\ allowedOrigins = <<>>

LifeAbsent ==
    /\ environ = Absent
    /\ main = Absent
    /\ cfg = Absent
    /\ srv = Absent
    /\ bg = Absent
    /\ limiters = Absent
    /\ stopper = Absent
    /\ stops = Absent

ClockStart == now = 0 /\ ticks = 0

StoreAbsent ==
    /\ store = Absent
    /\ regs = Absent

LocksAbsent ==
    /\ mu = Absent
    /\ vmu = Absent
    /\ ticker = FALSE

InitL == ClockStart /\ InitLimiter /\ AuthAbsent /\ PipelineAbsent /\ LifeAbsent
             /\ StoreAbsent /\ LocksAbsent
InitT == ClockStart /\ LimiterAbsent /\ InitToken /\ PipelineAbsent /\ LifeAbsent
             /\ StoreAbsent /\ LocksAbsent
InitP == ClockStart /\ LimiterAtRest /\ TokenAtRest /\ InitPipeline /\ LifeAbsent
             /\ StoreAbsent /\ LocksAbsent
InitS == ClockStart /\ LimiterAtRest /\ TokenAtRest /\ InitPipeline
             /\ ProcessAtRest /\ InitStop /\ StoreAbsent /\ LocksAbsent
InitR == ClockStart /\ InitRoutes /\ TokenAtRest /\ LifeAbsent
             /\ StoreAbsent /\ LocksAbsent
InitM == ClockStart /\ LimiterAtRest /\ TokenAtRest /\ InitPipeline
             /\ InitProcess /\ StopAtRest /\ StoreAbsent /\ LocksAbsent
InitK == ClockStart /\ InitLocks /\ AuthAbsent /\ PipelineAbsent /\ StoreAbsent
InitE == ClockStart /\ InitAlone /\ AuthAbsent /\ PipelineAbsent /\ LifeAbsent
             /\ StoreAbsent /\ LocksAbsent
InitG == ClockStart /\ LimiterAbsent /\ AuthAbsent /\ PipelineAbsent /\ LifeAbsent
             /\ InitRegister /\ LocksAbsent

(* The rate limiter under concurrent Allow calls and cleanup sweeps. *)
SpecLimiter == InitL /\ [][NextLimiter]_vars

(* The token engine: issue, forge, validate, rotate. *)
SpecToken == InitT /\ [][NextToken]_vars

(* The routes of the server, one request at a time. *)
SpecPipeline == InitP /\ [][NextPipeline]_vars

(* The login and profile routes behind any CORS allow-list. *)
SpecRoutes == InitR /\ [][NextRoutes]_vars

(* Stop called on the rate limiters from several goroutines. *)
SpecStop == InitS /\ [][NextStop]_vars

(* The process from its start to its exit. *)
SpecProcess == InitM /\ [][NextProcess]_vars

(* The rate limiter with its locks and its cleanup goroutine. *)
SpecLocks == InitK /\ [][NextLocks]_vars

(* The same with Stop, under the scheduling of Go. *)
SpecLocksFair == InitK /\ [][NextLocksStop]_vars /\ FairLocks

(* Calls and sweeps one after the other, beside a limiter that never
   evicts. *)
SpecAlone == InitE /\ [][NextAlone]_vars

(* Registrations served at once over one store. *)
SpecRegister == InitG /\ [][NextRegister]_vars

----------------------------------------------------------------------------
(* Properties of the rate limiter, checked under SpecLimiter. *)

(* C1: for a limiter of capacity c >= 1 and a key that starts without a
   bucket, as long as no refill has been applied and the key has not been
   evicted, the Allow calls that have returned for the key admitted exactly
   min(N, c) of the N calls, in every interleaving of the goroutines. *)
C1_ExactlyMinAdmitted ==
    \A ip \in IPs :
        (capacity >= 1 /\ ~disturbed[ip])
            => admitted[ip] = Min(decided[ip], capacity)

C1_BurstExhausted ==
    \E ip \in IPs :
        /\ capacity >= 2
        /\ ~disturbed[ip]
        /\ decided[ip] > capacity
        /\ admitted[ip] = capacity

(* C2: every bucket stored in the map holds between 0 and capacity tokens,
   whatever capacity the limiter was constructed with. *)
C2_TokensInRange ==
    \A ip \in DOMAIN visitors :
        /\ 0 <= heap[visitors[ip]].tokens
        /\ heap[visitors[ip]].tokens <= capacity

----------------------------------------------------------------------------
(* Properties of the token engine, checked under SpecToken. *)

(* C3: a token issued with any ttl > 0 and parsed at the instant of issue,
   with the same secret, is accepted, and the claims returned carry the
   subject, role and token type that were supplied. *)
C3_IssueThenParse ==
    (/\ held.origin = "issued"
     /\ held.err = ErrNone
     /\ held.ttl > 0
     /\ parsed.done
     /\ parsed.at = held.at)
        => /\ parsed.err = ErrNone
           /\ parsed.claims.uid = held.userID
           /\ parsed.claims.role = held.role
           /\ parsed.claims.typ = held.tokenType

(* C4: for a token that is acceptable in everything but its expiry,
   ParseToken rejects it as expired at every time now >= exp, the instant
   now = exp included, and accepts it at every now < exp; a token that has
   been rejected as expired is not accepted afterwards. *)
C4_ExpiryExclusive ==
    (/\ parsed.done
     /\ secret # ""
     /\ held.tok.form = "jwt"
     /\ held.tok.alg \in HMACAlgs
     /\ held.tok.key = secret
     /\ held.tok.exp # NoTime
     /\ (held.tok.iat = NoTime \/ held.tok.iat <= parsed.at + MaxFutureSkew))
        => /\ parsed.at >= held.tok.exp
                => parsed.err \in {ErrExpired, ErrExpiredExplicit}
           /\ parsed.at < held.tok.exp => parsed.err = ErrNone
           /\ parsed.err = ErrNone => ~wasExpired

C4_RejectedAtExpiryInstant ==
    /\ parsed.done
    /\ held.origin = "issued"
    /\ held.err = ErrNone
    /\ parsed.at = held.tok.exp
    /\ parsed.err = ErrExpired
    /\ wasExpired

(* C5: a token signed with an HMAC key other than the configured secret is
   rejected with the signature error and no claims are returned, whatever
   its claims are. *)
C5_ForeignKeyRejected ==
    (/\ parsed.done
     /\ secret # ""
     /\ held.tok.form = "jwt"
     /\ held.tok.alg \in HMACAlgs
     /\ held.tok.key # secret)
        => /\ parsed.err = ErrSignatureInvalid
           /\ parsed.claims = NilClaims

C5_UnexpiredForeignTokenRejected ==
    /\ parsed.done
    /\ secret # ""
    /\ held.tok.form = "jwt"
    /\ held.tok.alg = "HS256"
    /\ held.tok.key # secret
    /\ held.tok.exp = NoTime
    /\ parsed.err = ErrSignatureInvalid

(* C6, as stated: a token ParseToken accepts declares HS256. *)
C6_OnlyHS256Accepted ==
    (parsed.done /\ parsed.err = ErrNone) => held.tok.alg = "HS256"

(* C6, as the code has it: a token ParseToken accepts declares an algorithm
   of the HMAC family (HS256, HS384 or HS512) and is signed with the
   configured secret; a token that declares any other algorithm is rejected
   before its signature is looked at, as an unexpected signing method or an
   unavailable algorithm, and no claims are returned. *)
C6_OnlyHMACAccepted ==
    (parsed.done /\ secret # "" /\ held.tok.form = "jwt")
        => /\ parsed.err = ErrNone
                => held.tok.alg \in HMACAlgs /\ held.tok.key = secret
           /\ held.tok.alg \notin HMACAlgs
                => /\ parsed.err \in {ErrUnexpectedMethod, ErrAlgUnavailable}
                   /\ parsed.claims = NilClaims

C6_NonHMACRejected ==
    /\ parsed.done
    /\ secret # ""
    /\ held.tok.form = "jwt"
    /\ held.tok.key = secret
    /\ held.tok.alg = "none"
    /\ parsed.err = ErrUnexpectedMethod

(* C9: the refresh endpoint, given a token ParseToken accepts: an access
   token is refused with the wrong-token-type error and nothing is issued; a
   refresh token is answered with a new access token and a new refresh
   token that carry the subject and role of the presented token. *)
C9_RotationEnforcesType ==
    (rotated.done /\ ParseToken(held.tok, rotated.at).err = ErrNone)
        => /\ held.tok.typ = "access"
                => /\ rotated.status = 401
                   /\ rotated.err = ErrWrongTokenType
                   /\ rotated.access = EmptyToken
                   /\ rotated.refresh = EmptyToken
           /\ held.tok.typ = "refresh"
                => /\ rotated.status = 200
                   /\ rotated.access.typ = "access"
                   /\ rotated.refresh.typ = "refresh"
                   /\ rotated.access.uid = held.tok.uid
                   /\ rotated.refresh.uid = held.tok.uid
                   /\ rotated.access.role = held.tok.role
                   /\ rotated.refresh.role = held.tok.role
                   /\ ParseToken(rotated.access, rotated.at).err = ErrNone
                   /\ ParseToken(rotated.refresh, rotated.at).err = ErrNone

C9_RefreshRotated ==
    /\ rotated.done
    /\ held.origin = "issued"
    /\ held.tok.typ = "refresh"
    /\ rotated.status = 200
    /\ rotated.refresh.typ = "refresh"
    /\ rotated.refresh.uid = held.tok.uid

----------------------------------------------------------------------------
(* Properties of the middleware pipeline, checked under SpecPipeline. *)

(* C7: on the route wrapped by WithAuth the handler is entered only after
   the gate, and the gate delegates only when the Authorization header is
   "Bearer " followed by a non-empty token that ParseToken accepts; it then
   stores in the context the claims ParseToken returned.  In every other
   case it answers 401 and nothing after it is entered. *)
C7_GateFailsClosed ==
    /\ Entered("Me") => Entered("WithAuth")
    /\ \A i \in DOMAIN trace :
        trace[i].h = "WithAuth" =>
            LET p == ParseToken(req.auth.tok, trace[i].at)
                ok == /\ req.auth.scheme = "Bearer "
                      /\ req.auth.tok.form # "empty"
                      /\ p.err = ErrNone
            IN IF ok
               THEN ctx.hasUser /\ ctx.user = p.claims
               ELSE /\ resp.status = 401
                    /\ resp.by = "WithAuth"
                    /\ Len(trace) = i
                    /\ ~ctx.hasUser

C7_DelegatedWithClaims ==
    /\ Entered("Me")
    /\ ctx.hasUser
    /\ ctx.user.uid = "1"
    /\ resp.status = 200

(* C8, as stated: on the protected route the handlers are entered in the
   order request-ID, security headers, CORS, rate limit, authentication
   gate, logging, handler, and nothing is entered after an interceptor that
   answered the request itself. *)
C8_OrderAsStated ==
    LET order == <<"WithRequestID", "WithSecurityHeaders", "WithCORS",
                   "WithRateLimit", "WithAuth", "WithLogging", "Me">>
    IN req.route = ProfileRoute =>
        /\ Len(trace) <= Len(order)
        /\ \A i \in DOMAIN trace : trace[i].h = order[i]
        /\ resp.by \in {"WithCORS", "WithRateLimit", "WithAuth"}
                => trace[Len(trace)].h = resp.by

(* C8, as the code has it: on the protected route the handlers are entered
   in the order request-ID, security headers, rate limit, CORS,
   authentication gate, logging, handler, the same for every request, and
   nothing is entered after an interceptor that answered the request
   itself. *)
C8_OrderAsWired ==
    LET order == <<"WithRequestID", "WithSecurityHeaders", "WithRateLimit",
                   "WithCORS", "WithAuth", "WithLogging", "Me">>
    IN req.route = ProfileRoute =>
        /\ Len(trace) <= Len(order)
        /\ \A i \in DOMAIN trace : trace[i].h = order[i]
        /\ resp.by \in {"WithCORS", "WithRateLimit", "WithAuth"}
                => trace[Len(trace)].h = resp.by

C8_WholeChainEntered ==
    /\ req.route = ProfileRoute
    /\ Len(trace) = 7
    /\ trace[3].h = "WithRateLimit"
    /\ trace[4].h = "WithCORS"
    /\ trace[7].h = "Me"

(* C10: on the profile route the handler is entered only for a request
   whose bearer token is of type access; a valid refresh token is answered
   401 by the gate. *)
C10_AccessTokenRequired ==
    (req.route = ProfileRoute /\ Entered("Me")) => req.auth.tok.typ = "access"

----------------------------------------------------------------------------
(* Further properties of the token engine, checked under SpecToken. *)

(* C12: with a secret configured, GenerateToken and GenerateTokenWithType
   answer every ttl <= 0 with the invalid-ttl error and no token. *)
C12_NonPositiveTTLRefused ==
    (held.origin = "issued" /\ secret # "" /\ held.ttl <= 0)
        => /\ held.err = ErrInvalidTTL
           /\ held.tok = EmptyToken

C12_ZeroTTLRefused ==
    /\ held.origin = "issued"
    /\ held.via = "GenerateToken"
    /\ secret # ""
    /\ held.ttl = 0
    /\ held.err = ErrInvalidTTL

(* C13: an Auth without a secret answers every GenerateToken and ParseToken
   call with ErrNoSecret, whatever the ttl and whatever the token (empty,
   malformed or well formed): it produces no token and returns no claims. *)
C13_NoSecretNoTokens ==
    secret = "" =>
        /\ held.origin = "issued"
              => held.err = ErrNoSecret /\ held.tok = EmptyToken
        /\ parsed.done
              => parsed.err = ErrNoSecret /\ parsed.claims = NilClaims

C13_NoSecretPrecedes ==
    /\ secret = ""
    /\ held.origin = "issued"
    /\ held.ttl <= 0
    /\ held.err = ErrNoSecret
    /\ parsed.done
    /\ parsed.err = ErrNoSecret

(* C14: a token that is acceptable in everything but its issue time is
   rejected as issued in the future when iat is more than 60 seconds after
   the verifier's clock, and accepted when iat is at most 60 seconds
   ahead. *)
C14_FutureIssueRejected ==
    (/\ parsed.done
     /\ secret # ""
     /\ held.tok.form = "jwt"
     /\ held.tok.alg \in HMACAlgs
     /\ held.tok.key = secret
     /\ (held.tok.exp = NoTime \/ parsed.at < held.tok.exp)
     /\ held.tok.iat # NoTime)
        => IF held.tok.iat > parsed.at + 60 * Second
           THEN parsed.err = ErrIssuedInFuture /\ parsed.claims = NilClaims
           ELSE parsed.err = ErrNone

C14_SkewBoundary ==
    /\ parsed.done
    /\ held.origin = "forged"
    /\ held.tok.key = secret
    /\ held.tok.iat = parsed.at + 60 * Second
    /\ parsed.err = ErrNone

(* C15: every token issue produces carries exp > iat, as encoded, for
   every ttl > 0. *)
C15_ExpiresAfterIssued ==
    (held.origin = "issued" /\ held.err = ErrNone)
        => held.tok.exp > held.tok.iat

(* C16: ParseToken keeps no state about tokens: a token that has been
   presented to the refresh endpoint, and rotated, is accepted by every
   later ParseToken call made before its own exp. *)
C16_NoRevokedState ==
    (/\ parsed.done
     /\ rotated.done
     /\ rotated.status = 200
     /\ rotated.at <= parsed.at)
        => (parsed.err = ErrNone
              <=> (held.tok.exp = NoTime \/ parsed.at < held.tok.exp))

C16_UsedRefreshTokenAccepted ==
    /\ parsed.done
    /\ rotated.done
    /\ rotated.status = 200
    /\ held.origin = "issued"
    /\ held.tok.typ = "refresh"
    /\ rotated.at < parsed.at
    /\ parsed.err = ErrNone

----------------------------------------------------------------------------
(* Further properties of the middleware pipeline, checked under
   SpecPipeline. *)

(* C11: the rate-limit interceptor is entered once per request and calls
   Allow with the key getClientIP derives from the request.  When Allow
   answers false it writes 429 with a Retry-After header and a JSON error
   body, and nothing after it is entered; when Allow answers true it leaves
   the response alone and delegates to the handler it wraps. *)
C11_RateLimitGate ==
    \A i \in DOMAIN trace :
        trace[i].h = "WithRateLimit" =>
            /\ trace[i].key = getClientIP(req)
            /\ trace[i].key \in DOMAIN visitors
            /\ \A j \in DOMAIN trace : trace[j].h = "WithRateLimit" => j = i
            /\ IF trace[i].ok
               THEN /\ resp.by # "WithRateLimit"
                    /\ resp.status # 429
                    /\ resp.retryAfter = ""
                    /\ Len(trace) > i \/ chain # <<>>
               ELSE /\ resp.status = 429
                    /\ resp.by = "WithRateLimit"
                    /\ resp.retryAfter # ""
                    /\ resp.contentType = "application/json"
                    /\ resp.body.error = "Too Many Requests"
                    /\ resp.body.message # ""
                    /\ Len(trace) = i
                    /\ chain = <<>>
                    /\ heap[visitors[trace[i].key]].tokens <= 0

C11_TooManyRequests ==
    /\ req.addr = Proxied
    /\ Len(trace) = 3
    /\ trace[3].h = "WithRateLimit"
    /\ trace[3].key = "10.0.0.1"
    /\ ~trace[3].ok
    /\ resp.status = 429

----------------------------------------------------------------------------
(* Further properties of the rate limiter, checked under SpecLimiter. *)

(* The step in which goroutine g leaves Allow through the bucket branch. *)
BucketReturn(g) == gor[g].pc = "bucket" /\ gor'[g].pc = "idle"

(* The step in which goroutine g leaves Allow having installed a bucket. *)
CreateReturn(g) == gor[g].pc = "create" /\ gor'[g].pc = "idle"

(* The step in which the running sweep completes. *)
SweepReturn == sweep.pc # "idle" /\ sweep'.pc = "idle"

(* The keys the step removes from the map. *)
Deleted == DOMAIN visitors \ DOMAIN visitors'

(* The state shows an Allow call for ip made at t or later: a refill leaves
   the call's time in lastSeen, a call under way carries its own. *)
CalledSince(ip, t) ==
    \/ heap[visitors[ip]].lastSeen >= t
    \/ \E g \in Goroutines :
          gor[g].pc # "idle" /\ gor[g].ip = ip /\ gor[g].now >= t

(* The call of g found an empty bucket whose lastSeen lies at least one
   refill interval before the time the call read on entry. *)
EmptyAndDue(g) ==
    /\ BucketReturn(g)
    /\ heap[gor[g].v].tokens <= 0
    /\ gor[g].now - heap[gor[g].v].lastSeen >= rate

AdmittedBy(g) == admitted'[gor[g].ip] = admitted[gor[g].ip] + 1

(* C17 as stated: an Allow call that finds the bucket empty, at least one
   refill interval after its lastSeen, returns true, whatever the number of
   rejected calls before it. *)
C17_EmptyBucketRefilled ==
    [][\A g \in Goroutines : EmptyAndDue(g) => AdmittedBy(g)]_vars

(* C17, for a limiter of capacity one or more: an Allow call that finds the
   bucket empty, at least one refill interval after its lastSeen, returns
   true, whatever the number of rejected calls before it. *)
C17_EmptyBucketRefilledWithCapacity ==
    [][\A g \in Goroutines :
          (capacity >= 1 /\ EmptyAndDue(g)) => AdmittedBy(g)]_vars

(* A key of a limiter of capacity one was admitted, rejected, and admitted
   again from its refilled bucket. *)
C17_AdmittedAfterRejections ==
    \E ip \in IPs :
        /\ capacity = 1
        /\ hist.evicted[ip] = "no"
        /\ hist.regained[ip]
        /\ admitted[ip] = 2
        /\ decided[ip] = 3

(* C18 as stated, for the window before the clock first moves: a key is
   admitted at most capacity times. *)
C18_BurstWithinCapacity ==
    ticks = 0 => \A ip \in IPs : admitted[ip] <= capacity

(* A call that installs a bucket for a key a sweep had deleted is served as a
   first use: it returns true and the bucket holds capacity - 1 tokens, its
   lastSeen the time the call read on entry. *)
FirstUseAgain ==
    \A g \in Goroutines :
        (CreateReturn(g) /\ hist.evicted[gor[g].ip] = "gone") =>
            /\ gor[g].ip \in DOMAIN visitors'
            /\ heap'[visitors'[gor[g].ip]] =
                   [lastSeen |-> gor[g].now, tokens |-> capacity - 1]
            /\ AdmittedBy(g)

(* C19 as stated: when a sweep completes, the keys whose bucket was older
   than the retention when the sweep began are out of the map, and the call
   that installs such a key again is served as a first use. *)
C19_StaleAtBeginEvicted ==
    [][/\ SweepReturn => hist.staleAtBegin \cap DOMAIN visitors' = {}
       /\ FirstUseAgain]_vars

(* C19, with the staleness taken when the sweep examines the bucket: a key
   whose bucket is older than the retention when examined is marked, the
   marked keys are out of the map when the sweep completes, and the call
   that installs such a key again is served as a first use. *)
C19_StaleWhenExaminedEvicted ==
    [][/\ \A ip \in sweep.todo \ sweep'.todo :
             heap[visitors[ip]].lastSeen < sweep.cutoff
                 => ip \in sweep'.toDelete
       /\ sweep'.pc # "idle" => sweep.toDelete \subseteq sweep'.toDelete
       /\ SweepReturn => sweep.toDelete \cap DOMAIN visitors' = {}
       /\ FirstUseAgain]_vars

(* An evicted key has been installed again by a call made now. *)
C19_FreshAfterEviction ==
    \E ip \in IPs :
        /\ hist.evicted[ip] = "anew"
        /\ ip \in DOMAIN visitors
        /\ heap[visitors[ip]] = [lastSeen |-> now, tokens |-> capacity - 1]
        /\ admitted[ip] = 2

(* C20 as stated: a bucket is deleted only if no Allow call for its key was
   made during the 10 minutes before the deletion. *)
C20_OnlyIdleKeysEvicted ==
    [][\A ip \in Deleted : ~CalledSince(ip, now - Retention)]_vars

(* C20, with the idleness as the sweep measures it: a bucket is deleted only
   if the sweep marked it, and it is marked only if the lastSeen read when it
   was examined lies more than 10 minutes before the start of the sweep. *)
C20_OnlyStaleBucketsEvicted ==
    [][/\ Deleted \subseteq sweep.toDelete
       /\ \A ip \in sweep'.toDelete \ sweep.toDelete :
             /\ sweep.pc = "scan"
             /\ (sweep.cutoff + Retention) - heap[visitors[ip]].lastSeen
                    > Retention]_vars

(* A bucket was deleted while a call made now was holding it. *)
C20_EvictedWhileInUse ==
    \E ip \in IPs :
        /\ hist.evicted[ip] = "gone"
        /\ ip \notin DOMAIN visitors
        /\ \E g \in Goroutines :
              gor[g].pc = "bucket" /\ gor[g].ip = ip /\ gor[g].now = now

----------------------------------------------------------------------------
(* Properties of Stop, checked under SpecStop. *)

(* The Stop calls on limiter l that are past the compare-and-swap and have
   not returned. *)
Closing(l) == {g \in Goroutines : stopper[g].pc = "close" /\ stopper[g].rl = l}

(* C21: Stop may be called any number of times, one call after another or
   from several goroutines at once: no call panics, the stop channel of a
   limiter is closed at most once, and it has been closed exactly once as
   soon as a Stop call has returned and none is on its way to close it. *)
C21_StopIdempotent ==
    /\ ~stops.panicked
    /\ \A l \in LimiterNames :
          /\ stops.closes[l] <= 1
          /\ (stops.closes[l] = 1) = (limiters[l].stopChan = "closed")
          /\ (stops.returned[l] >= 1 /\ Closing(l) = {})
                 => stops.closes[l] = 1

(* Every Stop call the model allows has been made on one limiter and has
   returned, and the cleanup goroutine is gone. *)
C21_StoppedManyTimes ==
    \E l \in LimiterNames :
        /\ stops.returned[l] = MaxStops
        /\ stops.closes[l] = 1
        /\ limiters[l].cleanup = "returned"

----------------------------------------------------------------------------
(* Properties of the process, checked under SpecProcess. *)

(* C22: when the process has exited after a shutdown signal, srv.Shutdown
   had been given its grace period (the requests cut off, if any, were still
   in flight when it ran out), and Stop has been called on every rate limiter
   the server created. *)
C22_DrainedThenStopped ==
    (main.pc = "exited" /\ bg.signal) =>
        /\ srv.aborted > 0 => (main.deadline # 0 /\ now >= main.deadline)
        /\ \A l \in LimiterNames :
              limiters[l].stopped = 1 /\ limiters[l].stopChan = "closed"

(* C23: with an empty JWT_SECRET the process gets no further than the
   validation of its configuration: it exits with the configuration error
   code, no server is constructed, no rate limiter started, nothing listens
   and no request is accepted. *)
C23_NoSecretNoServer ==
    environ.JWT_SECRET = "" =>
        /\ main.pc \in {"load", "validate", "exited"}
        /\ main.pc = "exited" => main.exit = ExitCodeConfigError
        /\ ~srv.built
        /\ ~srv.listening
        /\ srv.accepted = 0
        /\ bg.starter = "none"
        /\ \A l \in LimiterNames : limiters[l] = NoLimiter

(* The process has exited on the empty JWT_SECRET. *)
C23_ExitedOnConfigError ==
    /\ environ.JWT_SECRET = ""
    /\ main.pc = "exited"
    /\ main.exit = ExitCodeConfigError

----------------------------------------------------------------------------
(* C24: on the routes as wired, every response carries X-Request-ID, also
   the responses of an interceptor that short-circuits (429, 401, the 200
   of a preflight); the header is the inbound X-Request-ID when the client
   sent one and a generated id otherwise, and it is the id stored in the
   request context. *)
ResponseDecided == resp.status # 0

C24_RequestIDOnEveryResponse ==
    ResponseDecided =>
        /\ resp.requestID # ""
        /\ IF req.requestID # ""
           THEN resp.requestID = req.requestID
           ELSE resp.requestID \in GeneratedIDs
        /\ ctx.requestID = resp.requestID

(* A request with its own id, turned away by the rate limiter with the id
   on the 429. *)
C24_RejectionCarriesInboundID ==
    /\ resp.status = 429
    /\ resp.by = "WithRateLimit"
    /\ req.requestID = "client-id"
    /\ resp.requestID = "client-id"
    /\ ctx.requestID = "client-id"

----------------------------------------------------------------------------
(* C27: every request a route handled yields exactly one access-log record
   once its response is decided, with the final status, at level error for
   a status of 500 and above, warn for 400 and above and info otherwise; in
   particular a request turned away with 401 because its token failed
   validation yields exactly one record at level warn. *)
RequestHandled == chain = <<>> /\ ResponseDecided

SeverityOf(status) ==
    IF status >= 500 THEN "error" ELSE IF status >= 400 THEN "warn" ELSE "info"

C27_OneRecordPerRequest ==
    RequestHandled =>
        /\ Len(logs) = 1
        /\ logs[1].status = resp.status
        /\ logs[1].level = SeverityOf(resp.status)

----------------------------------------------------------------------------
(* C25: a preflight (OPTIONS) request that reaches the CORS interceptor is
   answered 200 by it at once: nothing the interceptor wraps is entered,
   neither the authentication gate nor the handler, whatever the origin
   and the allow-list, on the protected route and on the open one. *)
LastEntered == trace[Len(trace)].h

C25_PreflightAnsweredByCORS ==
    (Entered("WithCORS") /\ req.method = "OPTIONS") =>
        /\ resp.status = 200
        /\ resp.by = "WithCORS"
        /\ LastEntered = "WithCORS"
        /\ chain = <<>>
        /\ ~ctx.hasUser

(* A preflight from an origin the list does not hold, without credentials,
   on the protected route: 200, the gate not entered. *)
C25_PreflightOnProtectedRoute ==
    /\ req.route = ProfileRoute
    /\ req.method = "OPTIONS"
    /\ req.origin = "https://evil.example"
    /\ allowedOrigins = <<AppOrigin>>
    /\ req.auth = Authorization("", EmptyToken)
    /\ resp.status = 200
    /\ resp.by = "WithCORS"
    /\ ~Entered("WithAuth")

(* C26: the CORS interceptor sets Access-Control-Allow-Origin exactly when
   the request's Origin equals an entry of the allow-list or the list holds
   the wildcard, and then to the request's Origin; a request that is not a
   preflight and whose origin does not match is passed on, without the
   header and without a response of the interceptor's own. *)
OriginMatches ==
    \/ \E i \in DOMAIN allowedOrigins : allowedOrigins[i] = req.origin
    \/ \E i \in DOMAIN allowedOrigins : allowedOrigins[i] = "*"

C26_AllowOriginIffMatch ==
    Entered("WithCORS") =>
        /\ resp.allowOrigin.set <=> OriginMatches
        /\ resp.allowOrigin.set => resp.allowOrigin.value = req.origin
        /\ (req.method # "OPTIONS" /\ ~OriginMatches) =>
              /\ resp.by # "WithCORS"
              /\ LastEntered = "WithCORS" => chain # <<>> /\ resp.status = 0

(* A request from an origin outside the list went through to the login
   handler and was answered there, without the header. *)
C26_ForeignOriginDelegated ==
    /\ req.route = LoginRoute
    /\ req.method = "POST"
    /\ req.origin = "https://evil.example"
    /\ allowedOrigins = <<"http://localhost:3000", AppOrigin>>
    /\ resp.by = "Login"
    /\ resp.status = 200
    /\ ~resp.allowOrigin.set

----------------------------------------------------------------------------
(* C28: a successful login answers 200 with a non-empty access_token, a
   non-empty refresh_token, token_type "Bearer" and expires_in 3600, the
   access token of type access living one hour and the refresh token of
   type refresh living seven days. *)
LoginSucceeded ==
    /\ req.route = LoginRoute
    /\ resp.by = "Login"
    /\ resp.status = 200

Lifetime(tok) == tok.exp - tok.iat

C28_LoginIssuesTokenPair ==
    LoginSucceeded =>
        /\ {"access_token", "refresh_token", "token_type", "expires_in"}
              \subseteq DOMAIN resp.issued
        /\ resp.issued.access_token # EmptyToken
        /\ resp.issued.refresh_token # EmptyToken
        /\ resp.issued.token_type = "Bearer"
        /\ resp.issued.expires_in * Second = Hour
        /\ resp.issued.access_token.typ = "access"
        /\ Lifetime(resp.issued.access_token) = Hour
        /\ resp.issued.refresh_token.typ = "refresh"
        /\ Lifetime(resp.issued.refresh_token) = 7 * 24 * Hour

----------------------------------------------------------------------------
(* C29: the gate's answer does not tell which validation step failed: for
   any two tokens ParseToken rejects (signature, malformed, expired, issued
   in the future, wrong algorithm) the gate answers the same 401 with the
   same body. *)
Answer(w) ==
    [status |-> w.status, contentType |-> w.contentType, body |-> w.body]

(* What the gate answers to a request presenting the header h. *)
GateAnswer(h) ==
    LET d == AuthDecision(h, now)
    IN Answer(writeAuthError(NoResp, d.message, d.status))

RejectedByParseToken(h) ==
    /\ h.scheme = "Bearer "
    /\ HeaderLen(h) > BearerPrefixLen
    /\ ParseToken(h.tok, now).err # ErrNone

C29_RejectionsIndistinguishable ==
    (resp.by = "WithAuth" /\ RejectedByParseToken(req.auth)) =>
        /\ resp.status = 401
        /\ \A h \in RejectedAuthHeaders :
              /\ RejectedByParseToken(h)
              /\ GateAnswer(h) = Answer(resp)

(* A token issued in the future was turned away with the answer an expired
   one gets, although ParseToken told them apart. *)
C29_FutureTokenAnsweredAsExpired ==
    /\ resp.by = "WithAuth"
    /\ req.auth.tok = FutureTok
    /\ ParseToken(FutureTok, now).err = ErrIssuedInFuture
    /\ ParseToken(ExpiredTok, now).err = ErrExpired
    /\ resp.status = 401
    /\ resp.body = [error |-> "Unauthorized",
                    message |-> "Invalid or expired token"]

----------------------------------------------------------------------------
(* C30: the two expiry checks of ParseToken agree: for every now and every
   exp the explicit re-check calls the token expired exactly when the
   library's check does, so at no instant is the token expired for one of
   them and valid for the other. *)
LibraryExpired(c, t) == ValidateClaims(c, t) = ErrExpired
ExplicitExpired(c, t) == ExplicitChecks(c, t) = ErrExpiredExplicit

C30_ExpiryChecksAgree ==
    (parsed.done /\ held.tok.form = "jwt" /\ held.tok.exp # NoTime) =>
        (LibraryExpired(DecodeClaims(held.tok), parsed.at)
            <=> ExplicitExpired(DecodeClaims(held.tok), parsed.at))

----------------------------------------------------------------------------
(* The step in which goroutine g leaves Allow with the answer false. *)
RejectedBy(g) == BucketReturn(g) /\ ~AdmittedBy(g)

(* The step leaves the bucket the call of g worked on, and the map, as they
   were. *)
BucketAndMapKept(g) ==
    /\ visitors' = visitors
    /\ gor[g].v \in Referenced(visitors', gor') =>
          heap'[gor[g].v] = heap[gor[g].v]

(* C31 as stated: a rejected Allow call changes nothing: the bucket of the
   key has the tokens and the lastSeen it had before the call, and no
   bucket is added to or removed from the map. *)
C31_RejectedCallChangesNothing ==
    [][\A g \in Goroutines : RejectedBy(g) => BucketAndMapKept(g)]_vars

(* C31, for a limiter of capacity one or more: a rejected Allow call leaves
   the tokens and the lastSeen of the bucket and the map as they were. *)
C31_RejectedCallChangesNothingWithCapacity ==
    [][\A g \in Goroutines :
          (capacity >= 1 /\ RejectedBy(g)) => BucketAndMapKept(g)]_vars

(* A key of a limiter of capacity one or more has been rejected, its bucket
   never refilled nor evicted. *)
C31_RejectedWithoutRefill ==
    \E ip \in DOMAIN visitors :
        /\ capacity >= 1
        /\ decided[ip] > admitted[ip]
        /\ ~disturbed[ip]
        /\ heap[visitors[ip]].tokens = 0

----------------------------------------------------------------------------
(* The bucket the call of g works on is the one the map holds for its key. *)
HoldsStoredBucket(g) ==
    /\ gor[g].ip \in DOMAIN visitors
    /\ visitors[gor[g].ip] = gor[g].v

(* C35: under every interleaving of Allow calls with a sweep, an admission
   is charged to the bucket the map holds for the key at that moment: no
   call spends a token of a bucket already deleted from the map. *)
C35_AdmissionsChargedToStoredBucket ==
    [][\A g \in Goroutines :
          (BucketReturn(g) /\ AdmittedBy(g)) => HoldsStoredBucket(g)]_vars

(* The tokens the bucket b offers a call that read the clock at t. *)
TokensOffered(b, t) ==
    IF TruncDiv(t - b.lastSeen, rate) > 0
    THEN Min(b.tokens + TruncDiv(t - b.lastSeen, rate), capacity)
    ELSE b.tokens

(* C35, as the code has it: an admission from a bucket is charged to the
   bucket the call took from the map when it looked the key up, whether or
   not a sweep has deleted it since: the call is admitted exactly when that
   bucket offers a token, takes exactly one token from it, and writes to no
   other bucket. *)
C35_AdmissionsChargedToHeldBucket ==
    [][\A g \in Goroutines :
          BucketReturn(g) =>
              LET a == gor[g].v
                  offered == TokensOffered(heap[a], gor[g].now)
              IN /\ AdmittedBy(g) <=> offered > 0
                 /\ (AdmittedBy(g) /\ a \in Referenced(visitors', gor')) =>
                       heap'[a].tokens = offered - 1
                 /\ \A b \in Addresses \ {a} :
                       b \in Referenced(visitors', gor') => heap'[b] = heap[b]
      ]_vars

(* With capacity one and the clock advanced once, three calls of one key
   have been admitted: one from the first bucket, one from that bucket
   after a sweep deleted it, one from the bucket made anew. *)
C35_AdmittedFromDeletedBucket ==
    \E ip \in IPs :
        /\ capacity = 1
        /\ ticks = 1
        /\ hist.evicted[ip] = "anew"
        /\ admitted[ip] = 3

----------------------------------------------------------------------------
(* C39: every token ParseToken accepts is bounded in time: the claims it
   returns at time now carry an expiresAt with now < expiresAt, so a
   correctly signed token without an expiry claim is never accepted. *)
C39_AcceptedTokensExpire ==
    (parsed.done /\ parsed.err = ErrNone) =>
        /\ parsed.claims.exp # NoTime
        /\ parsed.at < parsed.claims.exp

----------------------------------------------------------------------------
(* The first entry of an X-Forwarded-For value. *)
FirstForwarded(str) ==
    IF str = "10.0.0.1, 192.0.2.1" THEN "10.0.0.1" ELSE str

(* The key the stated precedence gives a request. *)
KeyAsStated(r) ==
    IF r.addr.forwarded # "" /\ ParseIP(FirstForwarded(r.addr.forwarded)) # ""
    THEN ParseIP(FirstForwarded(r.addr.forwarded))
    ELSE IF r.addr.realIP # "" /\ ParseIP(r.addr.realIP) # ""
    THEN ParseIP(r.addr.realIP)
    ELSE SplitHostPort(r.addr.remoteAddr).host

(* C40: the rate-limit key of a request is the X-Forwarded-For value when
   the header is present and gives a valid IP (its first IP when it carries
   a list), else the X-Real-IP value when that is a valid IP, else the host
   part of the peer address; the bucket charged is the one of that key. *)
C40_KeyByPrecedence ==
    \A i \in DOMAIN trace :
        trace[i].h = "WithRateLimit" =>
            /\ trace[i].key = KeyAsStated(req)
            /\ KeyAsStated(req) \in DOMAIN visitors

----------------------------------------------------------------------------
(* The login body names a user the store does not hold. *)
UnknownUser(l) ==
    /\ l.form = "json"
    /\ SanitizeInput(l.username) # ""
    /\ SanitizeInput(l.password) # ""
    /\ SanitizeInput(l.username) \notin DOMAIN StoredUsers

(* The login body names a stored user and another password than theirs. *)
WrongPassword(l) ==
    /\ l.form = "json"
    /\ SanitizeInput(l.username) \in DOMAIN StoredUsers
    /\ SanitizeInput(l.password) # ""
    /\ SanitizeInput(l.password)
          # StoredUsers[SanitizeInput(l.username)].password

(* What Login answers to the body l, the store working. *)
LoginAnswer(l) == Answer(LoginResponse(NoResp, l, TRUE, now))

(* C37: login does not tell whether a username exists: an attempt for an
   unknown username and an attempt for a stored username with a wrong
   password get the same status 401 and the same body, and neither is
   issued a token. *)
C37_LoginHidesUsernames ==
    (/\ resp.by = "Login"
     /\ resp.status # 500
     /\ UnknownUser(req.login) \/ WrongPassword(req.login)) =>
        /\ resp.status = 401
        /\ resp.issued = NoIssued
        /\ \A l \in Logins :
              (UnknownUser(l) \/ WrongPassword(l)) =>
                  LoginAnswer(l) = Answer(resp)

(* An attempt for a user the store does not hold was answered as an attempt
   with a wrong password is. *)
C37_UnknownUserAnsweredAsWrongPassword ==
    /\ resp.by = "Login"
    /\ req.login = LoginBody("json", "bob", "SecurePass123!")
    /\ resp.status = 401
    /\ resp.body = [error |-> "Unauthorized", message |-> "Invalid credentials"]
    /\ LoginAnswer(LoginBody("json", "alice", "wrong")) = Answer(resp)

----------------------------------------------------------------------------
(* Properties of registration, checked under SpecRegister. *)

(* The requests for the username that have been answered. *)
AnsweredFor(username) ==
    {g \in Handlers : regs[g].pc = "done" /\ regs[g].user.username = username}

(* Every request has been answered, and no request for another username
   carries an e-mail address of a request for this one. *)
SettledFor(username) ==
    /\ \A g \in Handlers : regs[g].pc = "done"
    /\ \A g, h \in Handlers :
          (regs[g].user.username = username /\ regs[h].user.email = regs[g].user.email)
              => regs[h].user.username = username

(* C38: usernames are unique after any interleaving of Register requests:
   the store never holds two users of one username, and of the requests
   that register one username exactly one is answered 201 and every other
   one 409, in the memory store and in the SQLite store. *)
C38_UsernamesUnique ==
    /\ \A i, j \in DOMAIN store.users :
          store.users[i].username = store.users[j].username => i = j
    /\ \A username \in Usernames :
          (AnsweredFor(username) # {} /\ SettledFor(username)) =>
              /\ Cardinality({g \in AnsweredFor(username) :
                                 regs[g].status = 201}) = 1
              /\ \A g \in AnsweredFor(username) : regs[g].status \in {201, 409}

(* The statement of C38 for the SQLite store alone. *)
UsernamesUniqueInSqlite == store.kind = "sqlite" => C38_UsernamesUnique

----------------------------------------------------------------------------
(* Properties of the limiter's locks, checked under SpecLocksFair. *)

(* The goroutine t holds, or is blocked on, a lock of the limiter. *)
HoldsLock(t) ==
    \/ t \in mu.readers
    \/ t \in mu.pending
    \/ mu.writer = t
    \/ \E a \in Slots : vmu[a] = t

SweepAtRest == sweep.pc \in {"select", "returned"}

(* C36: the two-level locking is deadlock-free: whatever the interleaving
   of Allow calls on the same or on different keys, sweeps and Stop calls,
   every Allow call returns and every sweep ends, and a goroutine that has
   returned holds no lock. *)
C36_EveryCallAndSweepReturns ==
    /\ \A g \in Goroutines : (gor[g].pc # "idle") ~> (gor[g].pc = "idle")
    /\ (~SweepAtRest) ~> SweepAtRest
    /\ [](\A g \in Goroutines : gor[g].pc = "idle" => ~HoldsLock(g))
    /\ [](SweepAtRest => ~HoldsLock(CleanupGor))

(* A call waits for the bucket the sweep has locked, the sweep holding the
   map for reading. *)
C36_CallWaitsForSweep ==
    /\ sweep.pc = "examine"
    /\ CleanupGor \in mu.readers
    /\ \E g \in Goroutines :
          /\ gor[g].pc = "vlock"
          /\ vmu[gor[g].v] = CleanupGor

(* C33: the limiter has one cleanup goroutine, started by NewRateLimiter;
   once Stop has been called it returns, even with ticks arriving all the
   time, and it does nothing afterwards; Allow calls made after Stop
   return as before. *)
C33_CleanupEndsAfterStop ==
    /\ [](limiters[LockedLimiter].cleanup \in {"running", "returned"})
    /\ (stops.begun > 0) ~> (limiters[LockedLimiter].cleanup = "returned")
    /\ [][limiters[LockedLimiter].cleanup = "returned" =>
             /\ limiters'[LockedLimiter].cleanup = "returned"
             /\ sweep' = sweep
             /\ ticker' = ticker]_vars
    /\ \A g \in Goroutines :
          (g \in hist.sinceStop) ~> (g \notin hist.sinceStop)

(* The cleanup goroutine has returned with a tick left in the channel, and
   a call that began after the stop has been answered. *)
C33_StoppedWithTickPending ==
    /\ limiters[LockedLimiter].cleanup = "returned"
    /\ ticker
    /\ hist.servedSinceStop > 0

----------------------------------------------------------------------------
(* Properties of the keys of the limiter, checked under SpecLocks. *)

(* The step is one of goroutine g's call to Allow. *)
StepOfAllow(g) == gor'[g] # gor[g]

(* The key of the call goroutine g is in, before or after the step. *)
KeyOfAllow(g) == IF gor[g].pc = "idle" THEN gor'[g].ip ELSE gor[g].ip

(* The step leaves the key k as it was: in or out of the map, its bucket,
   the bucket's lock and the decisions counted for it. *)
KeyKept(k) ==
    /\ (k \in DOMAIN visitors') = (k \in DOMAIN visitors)
    /\ k \in DOMAIN visitors =>
          /\ visitors'[k] = visitors[k]
          /\ heap'[visitors[k]] = heap[visitors[k]]
          /\ vmu'[visitors[k]] = vmu[visitors[k]]
    /\ admitted'[k] = admitted[k]
    /\ decided'[k] = decided[k]

(* The bucket goroutine g works on is not the bucket of another key. *)
OwnBucket(g) ==
    \A k \in DOMAIN visitors \ {gor[g].ip} : visitors[k] # gor[g].v

(* C32: keys are independent: a step of Allow for one key leaves every
   other key as it was, map entry, bucket, lock and decisions; the bucket
   a call works on is never that of another key, and the decision it
   returns follows from that bucket and the time of the call alone, so the
   decisions for a key do not depend on the calls for other keys. *)
C32_KeysIndependent ==
    [][\A g \in Goroutines :
          StepOfAllow(g) =>
              /\ \A k \in Clients \ {KeyOfAllow(g)} : KeyKept(k)
              /\ OwnBucket(g)
              /\ gor[g].pc = "spend" =>
                    (admitted'[gor[g].ip] = admitted[gor[g].ip] + 1
                        <=> TokensOffered(heap[gor[g].v], gor[g].now) > 0)]_vars

(* Both keys have a bucket, made by two calls of which the later one found
   the other key's bucket in the map. *)
C32_BothKeysServed ==
    /\ DOMAIN visitors = Clients
    /\ \A k \in Clients : admitted[k] = 1
    /\ visitors["10.0.0.1"] # visitors["10.0.0.2"]

----------------------------------------------------------------------------
(* Properties of eviction, checked under SpecAlone. *)

(* After a call the limiter and the one that never evicts have returned the
   same and hold the same bucket for the key. *)
SameAsNeverEvicting ==
    hist.last = "allow" =>
        /\ hist.ok = hist.okNever
        /\ BucketOf(hist.ip) = hist.never[hist.ip]

(* C34: eviction is a pure burst reset: with capacity x rate no longer than
   the retention and sweeps that do not overlap a call, every Allow call
   returns the same decision and leaves the same tokens and lastSeen as in
   a limiter that never evicts. *)
C34_EvictionIsBurstReset == SameAsNeverEvicting

(* The same for the limiters of capacity 1 and more. *)
EvictionIsBurstResetWithCapacity == capacity >= 1 => SameAsNeverEvicting

(* A key was evicted and has been served again. *)
EvictedAndServedAgain ==
    /\ capacity >= 1
    /\ hist.evictions > 0
    /\ hist.last = "allow"
====
